---- MODULE Spec2Model ----
(***************************************************************************)
(* Execution control of the TilEm SDL debugger (src/gui/sdldebugger.c):    *)
(* the breakpoint store, the step / step-over / finish sessions and their  *)
(* trigger tests, run against a small Z80 core and emulator thread.        *)
(*                                                                         *)
(* The debugger's C functions are operators from a debugger state record   *)
(* (the fields of TilemSdlDebugger together with the emulator fields they  *)
(* touch) to the state after the call.  The calculator core (breakpoint    *)
(* table, CPU, disassembler) and the emulator (run, pause, worker thread)  *)
(* are the collaborators of spec.md section 6.                             *)
(***************************************************************************)
EXTENDS Integers, Sequences, FiniteSets, TLC

VARIABLES
    calc,            \* dbg->emu->calc != NULL
    paused,          \* dbg->emu->paused
    core,            \* the calculator's breakpoint table: a set of registrations
    z80,             \* CPU registers read by the debugger: pc, sp, f, iff1, interrupts
    stack,           \* return addresses pushed by CALL, innermost last
    step_bp,         \* dbg->step_bp
    step_next_addr,  \* dbg->step_next_addr
    breakpoints,     \* dbg->breakpoints (GArray of TilemSdlDebugBreakpoint)
    mem_logical,     \* dbg->mem_logical
    last_bp_type,    \* dbg->last_bp_type
    last_bp_mode,    \* dbg->last_bp_mode
    visible,         \* dbg->visible
    resume_on_hide,  \* dbg->resume_on_hide
    bp_selected,     \* dbg->bp_selected
    input,           \* dbg->input_mode, input_buf, input_error, input_bp_index
    freed,           \* tilem_sdl_debugger_free has run
    act,             \* history: the last command and the run state it was given in
    sess,            \* history: the step session pending and where it started
    stop,            \* history: what paused the CPU last
    probe,           \* inputs and results of the trigger tests applied as pure functions
    thread           \* the command thread: its position in a command, the lock, the view

vars == <<calc, paused, core, z80, stack, step_bp, step_next_addr, breakpoints,
          mem_logical, last_bp_type, last_bp_mode, visible, resume_on_hide,
          bp_selected, input, freed, act, sess, stop, probe, thread>>

(***************************************************************************)
(* Bounds of the model.                                                    *)
(***************************************************************************)
MaxBps == 2        \* entries the store may hold
MaxDepth == 3      \* nested CALLs the CPU may have open
MaxToggled == 1    \* entries the store may hold where the view or the parser is followed

(***************************************************************************)
(* Machine arithmetic.                                                     *)
(***************************************************************************)
\* A dword is held as a 32-bit two's complement integer: 0xffffffff is -1.  The
\* addresses and opcodes of the model stay below 2^31, where the signed and the
\* unsigned order agree.
DWORD_MAX == -1

RECURSIVE BitAnd(_, _)
BitAnd(a, b) ==
    IF a = 0 \/ b = 0 THEN 0
    ELSE IF a = -1 THEN b
    ELSE IF b = -1 THEN a
    ELSE (a % 2) * (b % 2) + 2 * BitAnd(a \div 2, b \div 2)

\* a & ~m
AndNot(a, m) == a - BitAnd(a, m)

Pow2(i) == CASE i = 0 -> 1 [] i = 1 -> 2 [] i = 2 -> 4

Word(x) == x % 65536

(***************************************************************************)
(* Breakpoint types and access modes of the store.                         *)
(***************************************************************************)
SDL_DBG_BP_LOGICAL == 0
SDL_DBG_BP_PHYSICAL == 1
SDL_DBG_BP_PORT == 2
SDL_DBG_BP_OPCODE == 3

SDL_DBG_BP_READ == 4
SDL_DBG_BP_WRITE == 2
SDL_DBG_BP_EXEC == 1

NoCoreType == [kind |-> "NONE", phys |-> FALSE]

\* a faulty variant of sdl_dbg_get_core_bp_type: the physical flag is left out,
\* and a port is registered for reading whatever the access
CoreBpTypeNoFlag(type, mode) ==
    CASE type \in {SDL_DBG_BP_LOGICAL, SDL_DBG_BP_PHYSICAL}
            /\ mode = SDL_DBG_BP_READ -> [kind |-> "MEM_READ", phys |-> FALSE]
      [] type \in {SDL_DBG_BP_LOGICAL, SDL_DBG_BP_PHYSICAL}
            /\ mode = SDL_DBG_BP_WRITE -> [kind |-> "MEM_WRITE", phys |-> FALSE]
      [] type \in {SDL_DBG_BP_LOGICAL, SDL_DBG_BP_PHYSICAL}
            /\ mode = SDL_DBG_BP_EXEC -> [kind |-> "MEM_EXEC", phys |-> FALSE]
      [] type = SDL_DBG_BP_PORT /\ mode \in {SDL_DBG_BP_READ, SDL_DBG_BP_WRITE} ->
            [kind |-> "PORT_READ", phys |-> FALSE]
      [] type = SDL_DBG_BP_OPCODE -> [kind |-> "EXECUTE", phys |-> FALSE]
      [] OTHER -> NoCoreType

sdl_dbg_get_core_bp_type(type, mode) ==
    CASE type = SDL_DBG_BP_LOGICAL /\ mode = SDL_DBG_BP_READ ->
            [kind |-> "MEM_READ", phys |-> FALSE]
      [] type = SDL_DBG_BP_LOGICAL /\ mode = SDL_DBG_BP_WRITE ->
            [kind |-> "MEM_WRITE", phys |-> FALSE]
      [] type = SDL_DBG_BP_LOGICAL /\ mode = SDL_DBG_BP_EXEC ->
            [kind |-> "MEM_EXEC", phys |-> FALSE]
      [] type = SDL_DBG_BP_PHYSICAL /\ mode = SDL_DBG_BP_READ ->
            [kind |-> "MEM_READ", phys |-> TRUE]
      [] type = SDL_DBG_BP_PHYSICAL /\ mode = SDL_DBG_BP_WRITE ->
            [kind |-> "MEM_WRITE", phys |-> TRUE]
      [] type = SDL_DBG_BP_PHYSICAL /\ mode = SDL_DBG_BP_EXEC ->
            [kind |-> "MEM_EXEC", phys |-> TRUE]
      [] type = SDL_DBG_BP_PORT /\ mode = SDL_DBG_BP_READ ->
            [kind |-> "PORT_READ", phys |-> FALSE]
      [] type = SDL_DBG_BP_PORT /\ mode = SDL_DBG_BP_WRITE ->
            [kind |-> "PORT_WRITE", phys |-> FALSE]
      [] type = SDL_DBG_BP_OPCODE ->
            [kind |-> "EXECUTE", phys |-> FALSE]
      [] OTHER -> NoCoreType

(***************************************************************************)
(* The core's breakpoint table (spec.md section 6).  A registration is a   *)
(* record; `owner` is history: "step" for a step session's trampoline,     *)
(* "store" for a handle of a store entry.                                  *)
(***************************************************************************)
Handles(c) == {r.h : r \in c}

\* the handle the next registration gets: the lowest one not in use
NewHandle(c) ==
    CHOOSE h \in 1..(Cardinality(c) + 1) :
        /\ h \notin Handles(c)
        /\ \A k \in 1..(h - 1) : k \in Handles(c)

tilem_z80_add_breakpoint(c, type, start, end, mask, func, data, owner) ==
    c \cup {[h |-> NewHandle(c), kind |-> type.kind, phys |-> type.phys,
             start |-> start, end |-> end, mask |-> mask,
             func |-> func, data |-> data, owner |-> owner]}

tilem_z80_remove_breakpoint(c, h) == {r \in c : r.h # h}

tilem_calc_emulator_run(d) == [d EXCEPT !.paused = FALSE]

tilem_calc_emulator_pause(d) == [d EXCEPT !.paused = TRUE]

(***************************************************************************)
(* The program in the calculator's memory, and the disassembler's view of  *)
(* it.  0000: CALL 0010 / 0003: INC A / 0004: HALT / 0005: JP 0000         *)
(*      0010: INC A / 0011: RET NC / 0012: CALL 0010 / 0015: RET           *)
(***************************************************************************)
Mem(a) ==
    CASE a = 0 -> 205 [] a = 1 -> 16 [] a = 2 -> 0
      [] a = 3 -> 60
      [] a = 4 -> 118
      [] a = 5 -> 195 [] a = 6 -> 0 [] a = 7 -> 0
      [] a = 16 -> 60
      [] a = 17 -> 208
      [] a = 18 -> 205 [] a = 19 -> 16 [] a = 20 -> 0
      [] a = 21 -> 201
      [] OTHER -> 0

IsCall(op) == op = 205
IsJump(op) == op = 195
IsHalt(op) == op = 118
IsRet(op) == op = 201
IsRetCC(op) == op >= 192 /\ op <= 248 /\ op % 8 = 0
IsArith(op) == op = 60

InsnLen(op) == IF IsCall(op) \/ IsJump(op) THEN 3 ELSE 1

Operand(a) == Mem(Word(a + 1)) + 256 * Mem(Word(a + 2))

\* tilem_disasm_disassemble(dasm, calc, 0, addr, &next, NULL, 0): the address
\* following the instruction at addr
tilem_disasm_disassemble(addr) == addr + InsnLen(Mem(addr))

\* the flag tested by the condition code of RET cc, and the sense it is tested in
CondFlag(op) ==
    CASE (op \div 16) % 4 = 0 -> 64
      [] (op \div 16) % 4 = 1 -> 1
      [] (op \div 16) % 4 = 2 -> 4
      [] (op \div 16) % 4 = 3 -> 128
CondWantsSet(op) == (op \div 8) % 2 = 1
CondHolds(op, f) == ((f \div CondFlag(op)) % 2 = 1) = CondWantsSet(op)

Depth == Len(stack)

\* the flag values an arithmetic instruction may leave
FlagVals == {0, 1}

\* One instruction executed at z.pc: the registers and the stack afterwards.
\* fl is the flag byte an arithmetic instruction leaves.
Execute(z, stk, fl) ==
    LET op == Mem(z.pc)
        next == Word(z.pc + InsnLen(op))
    IN  CASE IsCall(op) ->
                [z |-> [z EXCEPT !.pc = Operand(z.pc), !.sp = Word(z.sp - 2 + 65536)],
                 stk |-> Append(stk, next)]
          [] IsJump(op) ->
                [z |-> [z EXCEPT !.pc = Operand(z.pc)], stk |-> stk]
          [] (IsRet(op) \/ (IsRetCC(op) /\ CondHolds(op, z.f))) /\ stk # <<>> ->
                [z |-> [z EXCEPT !.pc = stk[Len(stk)], !.sp = Word(z.sp + 2)],
                 stk |-> SubSeq(stk, 1, Len(stk) - 1)]
          [] IsHalt(op) ->
                [z |-> z, stk |-> stk]
          [] IsArith(op) ->
                [z |-> [z EXCEPT !.pc = next, !.f = fl], stk |-> stk]
          [] OTHER ->
                [z |-> [z EXCEPT !.pc = next], stk |-> stk]

(***************************************************************************)
(* The breakpoint store.  An entry is a TilemSdlDebugBreakpoint; id is the *)
(* array id[3], indexed here 1..3 for the access bits 0..2.                *)
(***************************************************************************)
HasBit(mode, i) == (mode \div Pow2(i)) % 2 = 1

\* one turn of the loop of sdl_dbg_set_bp, for access bit i; st = [core, bp]
SetBpSlot(st, i) ==
    IF HasBit(st.bp.mode, i)
    THEN LET t == sdl_dbg_get_core_bp_type(st.bp.type, Pow2(i))
         IN  IF t # NoCoreType
             THEN [core |-> tilem_z80_add_breakpoint(st.core, t, st.bp.start,
                                                     st.bp.end, st.bp.mask,
                                                     "none", 0, "store"),
                   bp |-> [st.bp EXCEPT !.id[i + 1] = NewHandle(st.core)]]
             ELSE st
    ELSE [st EXCEPT !.bp.id[i + 1] = 0]

sdl_dbg_set_bp(c, bp) ==
    IF bp.disabled
    THEN [core |-> c, bp |-> bp]
    ELSE SetBpSlot(SetBpSlot(SetBpSlot([core |-> c, bp |-> bp], 0), 1), 2)

\* one turn of the loop of sdl_dbg_unset_bp
UnsetBpSlot(st, i) ==
    [core |-> IF st.bp.id[i + 1] # 0
              THEN tilem_z80_remove_breakpoint(st.core, st.bp.id[i + 1])
              ELSE st.core,
     bp |-> [st.bp EXCEPT !.id[i + 1] = 0]]

\* a faulty variant of sdl_dbg_unset_bp: only the first handle is unregistered
UnsetFirstSlotOnly(hascalc, c, bp) ==
    IF ~hascalc
    THEN [core |-> c, bp |-> bp]
    ELSE UnsetBpSlot([core |-> c, bp |-> bp], 0)

sdl_dbg_unset_bp(hascalc, c, bp) ==
    IF ~hascalc
    THEN [core |-> c, bp |-> bp]
    ELSE UnsetBpSlot(UnsetBpSlot(UnsetBpSlot([core |-> c, bp |-> bp], 0), 1), 2)

sdl_dbg_is_mem_exec_bp(bp) ==
    /\ HasBit(bp.mode, 0)
    /\ bp.type \in {SDL_DBG_BP_LOGICAL, SDL_DBG_BP_PHYSICAL}

\* a faulty variant of sdl_dbg_bp_matches_addr: the address is compared as it
\* comes, without the mask
MatchesAddrUnmasked(bp, addr, logical) ==
    /\ ~bp.disabled
    /\ logical => bp.type = SDL_DBG_BP_LOGICAL
    /\ ~logical => bp.type = SDL_DBG_BP_PHYSICAL
    /\ addr >= bp.start
    /\ addr <= bp.end

sdl_dbg_bp_matches_addr(bp, addr, logical) ==
    /\ ~bp.disabled
    /\ logical => bp.type = SDL_DBG_BP_LOGICAL
    /\ ~logical => bp.type = SDL_DBG_BP_PHYSICAL
    /\ BitAnd(addr, bp.mask) >= bp.start
    /\ BitAnd(addr, bp.mask) <= bp.end

\* the index (from 1) of the first matching entry, 0 for the code's -1
\* a faulty variant of sdl_dbg_find_exec_breakpoint: the scan keeps the last
\* match
FindLastExecBreakpoint(bps, addr, logical) ==
    LET hit == {i \in 1..Len(bps) :
                    /\ sdl_dbg_is_mem_exec_bp(bps[i])
                    /\ sdl_dbg_bp_matches_addr(bps[i], addr, logical)}
    IN  IF hit = {} THEN 0 ELSE CHOOSE i \in hit : \A j \in hit : i >= j

sdl_dbg_find_exec_breakpoint(bps, addr, logical) ==
    LET hit == {i \in 1..Len(bps) :
                    /\ sdl_dbg_is_mem_exec_bp(bps[i])
                    /\ sdl_dbg_bp_matches_addr(bps[i], addr, logical)}
    IN  IF hit = {} THEN 0 ELSE CHOOSE i \in hit : \A j \in hit : i <= j

\* g_array_remove_index
RemoveIndex(s, i) == SubSeq(s, 1, i - 1) \o SubSeq(s, i + 1, Len(s))

NoIds == <<0, 0, 0>>

\* a faulty variant of sdl_dbg_toggle_breakpoint: the matching entry is
\* unregistered and stays in the list
ToggleKeepsEntry(d, addr) ==
    IF ~d.calc THEN d
    ELSE
    LET idx == sdl_dbg_find_exec_breakpoint(d.breakpoints, addr, d.mem_logical)
    IN  IF idx > 0
        THEN LET u == sdl_dbg_unset_bp(d.calc, d.core, d.breakpoints[idx])
             IN  [d EXCEPT !.core = u.core, !.breakpoints[idx] = u.bp]
        ELSE LET type == IF d.mem_logical THEN SDL_DBG_BP_LOGICAL
                                          ELSE SDL_DBG_BP_PHYSICAL
                 mask == IF type = SDL_DBG_BP_LOGICAL THEN 65535 ELSE DWORD_MAX
                 bp == [type |-> type, mode |-> SDL_DBG_BP_EXEC,
                        start |-> BitAnd(addr, mask), end |-> BitAnd(addr, mask),
                        mask |-> mask, disabled |-> FALSE, id |-> NoIds]
                 s == sdl_dbg_set_bp(d.core, bp)
             IN  [d EXCEPT !.core = s.core,
                           !.breakpoints = Append(d.breakpoints, s.bp),
                           !.last_bp_type = type,
                           !.last_bp_mode = SDL_DBG_BP_EXEC]

\* a faulty variant of sdl_dbg_toggle_breakpoint: the last-used space and
\* access are not recorded
ToggleKeepsDefaults(d, addr) ==
    IF ~d.calc THEN d
    ELSE
    LET idx == sdl_dbg_find_exec_breakpoint(d.breakpoints, addr, d.mem_logical)
    IN  IF idx > 0
        THEN LET u == sdl_dbg_unset_bp(d.calc, d.core, d.breakpoints[idx])
             IN  [d EXCEPT !.core = u.core,
                           !.breakpoints = RemoveIndex(d.breakpoints, idx)]
        ELSE LET type == IF d.mem_logical THEN SDL_DBG_BP_LOGICAL
                                          ELSE SDL_DBG_BP_PHYSICAL
                 mask == IF type = SDL_DBG_BP_LOGICAL THEN 65535 ELSE DWORD_MAX
                 bp == [type |-> type, mode |-> SDL_DBG_BP_EXEC,
                        start |-> BitAnd(addr, mask), end |-> BitAnd(addr, mask),
                        mask |-> mask, disabled |-> FALSE, id |-> NoIds]
                 s == sdl_dbg_set_bp(d.core, bp)
             IN  [d EXCEPT !.core = s.core,
                           !.breakpoints = Append(d.breakpoints, s.bp)]

sdl_dbg_toggle_breakpoint(d, addr) ==
    IF ~d.calc THEN d
    ELSE
    LET idx == sdl_dbg_find_exec_breakpoint(d.breakpoints, addr, d.mem_logical)
    IN  IF idx > 0
        THEN LET u == sdl_dbg_unset_bp(d.calc, d.core, d.breakpoints[idx])
             IN  [d EXCEPT !.core = u.core,
                           !.breakpoints = RemoveIndex(d.breakpoints, idx)]
        ELSE LET type == IF d.mem_logical THEN SDL_DBG_BP_LOGICAL
                                          ELSE SDL_DBG_BP_PHYSICAL
                 mask == IF type = SDL_DBG_BP_LOGICAL THEN 65535 ELSE DWORD_MAX
                 bp == [type |-> type, mode |-> SDL_DBG_BP_EXEC,
                        start |-> BitAnd(addr, mask), end |-> BitAnd(addr, mask),
                        mask |-> mask, disabled |-> FALSE, id |-> NoIds]
                 s == sdl_dbg_set_bp(d.core, bp)
             IN  [d EXCEPT !.core = s.core,
                           !.breakpoints = Append(d.breakpoints, s.bp),
                           !.last_bp_type = type,
                           !.last_bp_mode = SDL_DBG_BP_EXEC]

\* the loop of sdl_dbg_clear_breakpoints over the entries from index i on
RECURSIVE ClearFrom(_, _, _, _)
ClearFrom(hascalc, c, bps, i) ==
    IF i > Len(bps) THEN c
    ELSE ClearFrom(hascalc, sdl_dbg_unset_bp(hascalc, c, bps[i]).core, bps, i + 1)

sdl_dbg_clear_breakpoints(d) ==
    [d EXCEPT !.core = ClearFrom(d.calc, d.core, d.breakpoints, 1),
              !.breakpoints = <<>>]

\* a faulty variant of sdl_dbg_apply_breakpoint: the handles of the entry
\* edited stay registered
ApplyBreakpointKeepsOld(d, bp_in, index) ==
    IF index >= 1 /\ index <= Len(d.breakpoints)
    THEN LET old == d.breakpoints[index]
             bp == [bp_in EXCEPT !.disabled = old.disabled]
             s == sdl_dbg_set_bp(d.core, bp)
         IN  [d EXCEPT !.core = s.core,
                       !.breakpoints[index] = s.bp,
                       !.last_bp_type = bp.type,
                       !.last_bp_mode = bp.mode]
    ELSE LET s == sdl_dbg_set_bp(d.core, bp_in)
         IN  [d EXCEPT !.core = s.core,
                       !.breakpoints = Append(d.breakpoints, s.bp),
                       !.bp_selected = Len(d.breakpoints),
                       !.last_bp_type = bp_in.type,
                       !.last_bp_mode = bp_in.mode]

\* a faulty variant of sdl_dbg_apply_breakpoint: an edited entry is enabled
ApplyBreakpointEnables(d, bp_in, index) ==
    IF index >= 1 /\ index <= Len(d.breakpoints)
    THEN LET old == d.breakpoints[index]
             u == sdl_dbg_unset_bp(d.calc, d.core, old)
             s == sdl_dbg_set_bp(u.core, bp_in)
         IN  [d EXCEPT !.core = s.core,
                       !.breakpoints[index] = s.bp,
                       !.last_bp_type = bp_in.type,
                       !.last_bp_mode = bp_in.mode]
    ELSE LET s == sdl_dbg_set_bp(d.core, bp_in)
         IN  [d EXCEPT !.core = s.core,
                       !.breakpoints = Append(d.breakpoints, s.bp),
                       !.bp_selected = Len(d.breakpoints),
                       !.last_bp_type = bp_in.type,
                       !.last_bp_mode = bp_in.mode]

\* a faulty variant of sdl_dbg_apply_breakpoint: an added entry whose
\* definition the store already holds is not added again
ApplyBreakpointOnce(d, bp_in, index) ==
    IF index >= 1 /\ index <= Len(d.breakpoints)
    THEN LET old == d.breakpoints[index]
             bp == [bp_in EXCEPT !.disabled = old.disabled]
             u == sdl_dbg_unset_bp(d.calc, d.core, old)
             s == sdl_dbg_set_bp(u.core, bp)
         IN  [d EXCEPT !.core = s.core,
                       !.breakpoints[index] = s.bp,
                       !.last_bp_type = bp.type,
                       !.last_bp_mode = bp.mode]
    ELSE IF \E i \in 1..Len(d.breakpoints) :
               /\ d.breakpoints[i].type = bp_in.type
               /\ d.breakpoints[i].start = bp_in.start
               /\ d.breakpoints[i].end = bp_in.end
         THEN [d EXCEPT !.last_bp_type = bp_in.type,
                        !.last_bp_mode = bp_in.mode]
    ELSE LET s == sdl_dbg_set_bp(d.core, bp_in)
         IN  [d EXCEPT !.core = s.core,
                       !.breakpoints = Append(d.breakpoints, s.bp),
                       !.bp_selected = Len(d.breakpoints),
                       !.last_bp_type = bp_in.type,
                       !.last_bp_mode = bp_in.mode]

\* index is the code's index + 1; 0 stands for -1 (add)
sdl_dbg_apply_breakpoint(d, bp_in, index) ==
    IF index >= 1 /\ index <= Len(d.breakpoints)
    THEN LET old == d.breakpoints[index]
             bp == [bp_in EXCEPT !.disabled = old.disabled]
             u == sdl_dbg_unset_bp(d.calc, d.core, old)
             s == sdl_dbg_set_bp(u.core, bp)
         IN  [d EXCEPT !.core = s.core,
                       !.breakpoints[index] = s.bp,
                       !.last_bp_type = bp.type,
                       !.last_bp_mode = bp.mode]
    ELSE LET s == sdl_dbg_set_bp(d.core, bp_in)
         IN  [d EXCEPT !.core = s.core,
                       !.breakpoints = Append(d.breakpoints, s.bp),
                       !.bp_selected = Len(d.breakpoints),
                       !.last_bp_type = bp_in.type,
                       !.last_bp_mode = bp_in.mode]

\* a faulty variant of the keys d / Delete: the selection follows the last
\* entry below 0 when the array is left empty
DialogDeleteKeyNoFloor(d) ==
    IF d.bp_selected < Len(d.breakpoints)
    THEN LET u == sdl_dbg_unset_bp(d.calc, d.core, d.breakpoints[d.bp_selected + 1])
             rest == RemoveIndex(d.breakpoints, d.bp_selected + 1)
         IN  [d EXCEPT !.core = u.core,
                       !.breakpoints = rest,
                       !.bp_selected = IF d.bp_selected >= Len(rest)
                                       THEN Len(rest) - 1 ELSE d.bp_selected]
    ELSE d

\* the branch of sdl_dbg_handle_key for the keys d / Delete of the dialog
DialogDeleteKey(d) ==
    IF d.bp_selected < Len(d.breakpoints)
    THEN LET u == sdl_dbg_unset_bp(d.calc, d.core, d.breakpoints[d.bp_selected + 1])
             rest == RemoveIndex(d.breakpoints, d.bp_selected + 1)
             sel == IF d.bp_selected >= Len(rest) THEN Len(rest) - 1
                    ELSE d.bp_selected
         IN  [d EXCEPT !.core = u.core,
                       !.breakpoints = rest,
                       !.bp_selected = IF sel < 0 THEN 0 ELSE sel]
    ELSE d

\* a faulty variant of the keys t / Space: the entry is marked enabled again
\* and nothing is registered
DialogToggleNoSet(d) ==
    IF d.bp_selected < Len(d.breakpoints)
    THEN LET bp == d.breakpoints[d.bp_selected + 1]
         IN  IF bp.disabled
             THEN [d EXCEPT !.breakpoints[d.bp_selected + 1].disabled = FALSE]
             ELSE LET u == sdl_dbg_unset_bp(d.calc, d.core,
                                            [bp EXCEPT !.disabled = TRUE])
                  IN  [d EXCEPT !.core = u.core,
                                !.breakpoints[d.bp_selected + 1] = u.bp]
    ELSE d

\* the branch of sdl_dbg_handle_key for the keys t / Space of the dialog
DialogToggleKey(d) ==
    IF d.bp_selected < Len(d.breakpoints)
    THEN LET bp == d.breakpoints[d.bp_selected + 1]
         IN  IF bp.disabled
             THEN LET s == sdl_dbg_set_bp(d.core, [bp EXCEPT !.disabled = FALSE])
                  IN  [d EXCEPT !.core = s.core,
                                !.breakpoints[d.bp_selected + 1] = s.bp]
             ELSE LET u == sdl_dbg_unset_bp(d.calc, d.core,
                                            [bp EXCEPT !.disabled = TRUE])
                  IN  [d EXCEPT !.core = u.core,
                                !.breakpoints[d.bp_selected + 1] = u.bp]
    ELSE d

(***************************************************************************)
(* The text form of a store entry: C strings are strings, read character   *)
(* by character.                                                           *)
(***************************************************************************)
\* the character s[i - 1] of the C string s, and the C string s + (i - 1)
Ch(s, i) == IF i >= 1 /\ i <= Len(s) THEN SubSeq(s, i, i) ELSE ""
From(s, i) == SubSeq(s, i, Len(s))

UpperLetters == "ABCDEFGHIJKLMNOPQRSTUVWXYZ"
LowerLetters == "abcdefghijklmnopqrstuvwxyz"

\* the small letter of each capital
LowerOf == [c \in {Ch(UpperLetters, i) : i \in 1..26} |->
               Ch(LowerLetters, CHOOSE i \in 1..26 : Ch(UpperLetters, i) = c)]

g_ascii_tolower(c) == IF c \in DOMAIN LowerOf THEN LowerOf[c] ELSE c

\* 0 when the strings are equal but for case, as the code tests it; the
\* character past the end of a string is its NUL, ""
g_ascii_strcasecmp(a, b) ==
    IF /\ Len(a) = Len(b)
       /\ \A i \in 1..Len(a) :
             g_ascii_tolower(Ch(a, i)) = g_ascii_tolower(Ch(b, i))
    THEN 0 ELSE 1

g_ascii_strncasecmp(a, b, n) ==
    IF \A i \in 1..n :
          \/ i > Len(a) + 1
          \/ i > Len(b) + 1
          \/ g_ascii_tolower(Ch(a, i)) = g_ascii_tolower(Ch(b, i))
    THEN 0 ELSE 1

\* strchr(s, c) as the code tests it: c occurs in s
strchr(s, c) == \E i \in 1..Len(s) : Ch(s, i) = c

\* the place (from 1) of the first c in s, 0 for NULL
StrchrAt(s, c) ==
    IF strchr(s, c)
    THEN CHOOSE i \in 1..Len(s) :
            Ch(s, i) = c /\ \A j \in 1..(i - 1) : Ch(s, j) # c
    ELSE 0

sdl_dbg_strcasestr(haystack, needle) ==
    \/ needle = ""
    \/ \E i \in 1..Len(haystack) :
          g_ascii_strncasecmp(From(haystack, i), needle, Len(needle)) = 0

HexUpper == "0123456789ABCDEF"
HexLower == "0123456789abcdef"

\* the value of each hexadecimal digit
HexVal ==
    [c \in {Ch(HexUpper, i) : i \in 1..16} \cup {Ch(HexLower, i) : i \in 1..16} |->
        (CHOOSE i \in 1..16 : Ch(HexUpper, i) = c \/ Ch(HexLower, i) = c) - 1]

IsXDigit(c) == c \in DOMAIN HexVal

DigitVal(c) == HexVal[c]

\* the digits of strtol(s, &e, 16) from place i on: the value, and the place e
\* of the first character that is not part of the number
RECURSIVE StrtolFrom(_, _, _)
StrtolFrom(s, i, acc) ==
    IF i <= Len(s) /\ IsXDigit(Ch(s, i))
    THEN StrtolFrom(s, i + 1, acc * 16 + DigitVal(Ch(s, i)))
    ELSE [val |-> acc, e |-> i]

\* strtol(s, &e, 16) for a string with no sign and no white space: an
\* optional 0x before the digits; e = 1 when there is no number
strtol16(s) ==
    IF /\ Len(s) >= 3
       /\ Ch(s, 1) = "0" /\ Ch(s, 2) \in {"x", "X"}
       /\ IsXDigit(Ch(s, 3))
    THEN StrtolFrom(s, 3, 0)
    ELSE StrtolFrom(s, 1, 0)

\* the disassembler's symbol table: no symbol file has been loaded
tilem_disasm_get_label(s) == [ok |-> FALSE, val |-> 0]

sdl_dbg_parse_num(s) ==
    IF s = "" THEN [ok |-> FALSE, val |-> 0]
    ELSE LET n == IF Ch(s, 1) = "$" THEN From(s, 2)
                  ELSE IF Ch(s, 1) = "0" /\ Ch(s, 2) \in {"x", "X"}
                       THEN From(s, 3)
                       ELSE s
             r == strtol16(n)
             e == IF r.e <= Len(n) /\ Ch(n, r.e) \in {"h", "H"}
                  THEN r.e + 1 ELSE r.e
         IN  IF r.e # 1 /\ e > Len(n)
             THEN [ok |-> TRUE, val |-> r.val]
             ELSE tilem_disasm_get_label(s)

\* the memory of the calculator (calc->hw): a TI-83 Plus
Hw == [romsize |-> 524288, ramsize |-> 32768, rampagemask |-> 64]

\* v << 14 in a dword (the bits shifted past bit 31 are lost), as its two
\* 16-bit halves
Shl14(v) == [hi |-> (v \div 4) % 65536, lo |-> (v % 4) * 16384]

\* r * 2^n modulo m
RECURSIVE DoubleMod(_, _, _)
DoubleMod(r, n, m) == IF n = 0 THEN r ELSE DoubleMod((2 * r) % m, n - 1, m)

\* the dword of the two halves, modulo m
DwordMod(w, m) == (DoubleMod(w.hi % m, 16, m) + (w.lo % m)) % m

\* the conversion with the offset masked to 15 bits
ParsePhysicalMask15(hascalc, s) ==
    IF ~hascalc THEN [ok |-> FALSE, val |-> 0]
    ELSE
    LET sep == StrchrAt(s, ":")
    IN  IF sep = 0 THEN sdl_dbg_parse_num(s)
        ELSE LET page == sdl_dbg_parse_num(SubSeq(s, 1, sep - 1))
                 addr == sdl_dbg_parse_num(From(s, sep + 1))
                 a == addr.val % 32768
             IN  IF ~page.ok \/ ~addr.ok THEN [ok |-> FALSE, val |-> 0]
                 ELSE IF page.val >= Hw.rampagemask
                 THEN [ok |-> TRUE,
                       val |-> DwordMod(
                                 [hi |-> Shl14(page.val - Hw.rampagemask).hi,
                                  lo |-> Shl14(page.val - Hw.rampagemask).lo + a],
                                 Hw.ramsize) + Hw.romsize]
                 ELSE [ok |-> TRUE,
                       val |-> DwordMod([hi |-> Shl14(page.val).hi,
                                         lo |-> Shl14(page.val).lo + a],
                                        Hw.romsize)]

\* addr &= 0x3fff leaves the low 14 bits, which the 14 zero bits of the
\* shifted page take without a carry
sdl_dbg_parse_physical(hascalc, s) ==
    IF ~hascalc THEN [ok |-> FALSE, val |-> 0]
    ELSE
    LET sep == StrchrAt(s, ":")
    IN  IF sep = 0 THEN sdl_dbg_parse_num(s)
        ELSE LET page == sdl_dbg_parse_num(SubSeq(s, 1, sep - 1))
                 addr == sdl_dbg_parse_num(From(s, sep + 1))
                 a == addr.val % 16384
             IN  IF ~page.ok \/ ~addr.ok THEN [ok |-> FALSE, val |-> 0]
                 ELSE IF page.val >= Hw.rampagemask
                 THEN [ok |-> TRUE,
                       val |-> DwordMod(
                                 [hi |-> Shl14(page.val - Hw.rampagemask).hi,
                                  lo |-> Shl14(page.val - Hw.rampagemask).lo + a],
                                 Hw.ramsize) + Hw.romsize]
                 ELSE [ok |-> TRUE,
                       val |-> DwordMod([hi |-> Shl14(page.val).hi,
                                         lo |-> Shl14(page.val).lo + a],
                                        Hw.romsize)]

sdl_dbg_parse_bp_type(s, fallback) ==
    IF s = "" THEN fallback
    ELSE IF \E w \in {"logical", "log", "l", "mem"} : g_ascii_strcasecmp(s, w) = 0
    THEN SDL_DBG_BP_LOGICAL
    ELSE IF \E w \in {"physical", "phys", "abs", "p"} : g_ascii_strcasecmp(s, w) = 0
    THEN SDL_DBG_BP_PHYSICAL
    ELSE IF \E w \in {"port", "io", "i/o"} : g_ascii_strcasecmp(s, w) = 0
    THEN SDL_DBG_BP_PORT
    ELSE IF \E w \in {"opcode", "op"} : g_ascii_strcasecmp(s, w) = 0
    THEN SDL_DBG_BP_OPCODE
    ELSE fallback

sdl_dbg_parse_bp_mode(s) ==
    LET mode == (IF sdl_dbg_strcasestr(s, "read") \/ strchr(s, "r")
                 THEN SDL_DBG_BP_READ ELSE 0)
              + (IF sdl_dbg_strcasestr(s, "write") \/ strchr(s, "w")
                 THEN SDL_DBG_BP_WRITE ELSE 0)
              + (IF sdl_dbg_strcasestr(s, "exec") \/ strchr(s, "x")
                 THEN SDL_DBG_BP_EXEC ELSE 0)
    IN  IF s = "" \/ mode = 0 THEN -1 ELSE mode

sdl_dbg_parse_bp_addr(hascalc, type, token) ==
    LET dash == StrchrAt(token, "-")
        first == IF dash > 0 THEN SubSeq(token, 1, dash - 1) ELSE token
        second == IF dash > 0 THEN From(token, dash + 1) ELSE ""
        num(s) == IF type = SDL_DBG_BP_PHYSICAL
                  THEN sdl_dbg_parse_physical(hascalc, s)
                  ELSE sdl_dbg_parse_num(s)
    IN  IF ~num(first).ok
        THEN [ok |-> FALSE, err |-> "Invalid address.", start |-> 0, end |-> 0]
        ELSE IF second # ""
        THEN IF ~num(second).ok
             THEN [ok |-> FALSE, err |-> "Invalid end address.",
                   start |-> num(first).val, end |-> 0]
             ELSE [ok |-> TRUE, err |-> "", start |-> num(first).val,
                   end |-> num(second).val]
        ELSE [ok |-> TRUE, err |-> "", start |-> num(first).val,
              end |-> num(first).val]

\* the one element of a set of one: the value of an expression, worked out once
The(S) == CHOOSE x \in S : TRUE

\* g_strsplit_set(line, " \t", -1): the pieces between the delimiters, the
\* empty ones too
g_strsplit_set(line) ==
    LET delims == {i \in 1..Len(line) : Ch(line, i) \in {" ", "\t"}}
        starts == {1} \cup {i + 1 : i \in delims}
        endof(a) == The({e \in delims \cup {Len(line) + 1} :
                          /\ e >= a
                          /\ \A f \in delims : f >= a => e <= f})
    IN  [k \in 1..Cardinality(starts) |->
            The({SubSeq(line, a, endof(a) - 1) :
                    a \in {b \in starts :
                              Cardinality({c \in starts : c < b}) = k - 1}})]

\* one turn of the token loop of sdl_dbg_parse_breakpoint; addr_token "" is
\* the code's NULL
ScanToken(st, tok) ==
    IF tok = "" THEN st
    ELSE IF \/ g_ascii_strncasecmp(tok, "mask=", 5) = 0
            \/ g_ascii_strncasecmp(tok, "mask:", 5) = 0
    THEN LET n == sdl_dbg_parse_num(From(tok, 6))
         IN  IF ~n.ok THEN [st EXCEPT !.err = "Invalid mask."]
             ELSE [st EXCEPT !.mask = n.val, !.have_mask = TRUE]
    ELSE IF ~st.type_set /\ sdl_dbg_parse_bp_type(tok, -1) # -1
    THEN [st EXCEPT !.type = sdl_dbg_parse_bp_type(tok, -1), !.type_set = TRUE]
    ELSE IF ~st.mode_set /\ sdl_dbg_parse_bp_mode(tok) # -1
    THEN [st EXCEPT !.mode = sdl_dbg_parse_bp_mode(tok), !.mode_set = TRUE]
    ELSE IF st.addr_token = "" THEN [st EXCEPT !.addr_token = tok]
    ELSE st

\* the token loop, from token i on
RECURSIVE ScanTokens(_, _, _)
ScanTokens(st, tokens, i) ==
    IF i > Len(tokens) \/ st.err # "" THEN st
    ELSE The({ScanTokens(s1, tokens, i + 1) : s1 \in {ScanToken(st, tokens[i])}})

\* the entry sdl_dbg_parse_breakpoint starts from: memset(out, 0, ...)
ZeroBp ==
    [type |-> 0, mode |-> 0, start |-> 0, end |-> 0, mask |-> 0,
     disabled |-> FALSE, id |-> NoIds]

\* a faulty variant of ModeForType: the mode read is dropped and the entry
\* gets the default of its space
ModeForTypeDefault(type, mode) ==
    IF type = SDL_DBG_BP_PORT THEN SDL_DBG_BP_READ ELSE SDL_DBG_BP_EXEC

\* a faulty variant of ModeForType: the mode read is not restricted to the
\* accesses of the space
ModeForTypeUnrestricted(type, mode) ==
    IF type = SDL_DBG_BP_OPCODE THEN SDL_DBG_BP_EXEC
    ELSE IF mode = 0
    THEN (IF type = SDL_DBG_BP_PORT THEN SDL_DBG_BP_READ ELSE SDL_DBG_BP_EXEC)
    ELSE mode

\* the access mode of an entry of the given space, from the mode read
ModeForType(type, mode) ==
    LET m == IF type = SDL_DBG_BP_OPCODE THEN SDL_DBG_BP_EXEC
             ELSE IF type = SDL_DBG_BP_PORT
                  THEN BitAnd(mode, SDL_DBG_BP_READ + SDL_DBG_BP_WRITE)
                  ELSE BitAnd(mode, SDL_DBG_BP_READ + SDL_DBG_BP_WRITE
                                       + SDL_DBG_BP_EXEC)
    IN  IF type = SDL_DBG_BP_PORT /\ m = 0 THEN SDL_DBG_BP_READ
        ELSE IF type \in {SDL_DBG_BP_LOGICAL, SDL_DBG_BP_PHYSICAL} /\ m = 0
             THEN SDL_DBG_BP_EXEC
             ELSE m

\* the mask of an entry of the given space
MaskForType(type, have_mask, mask) ==
    IF have_mask /\ type \in {SDL_DBG_BP_PHYSICAL, SDL_DBG_BP_OPCODE} THEN mask
    ELSE IF type = SDL_DBG_BP_LOGICAL THEN 65535
    ELSE IF type = SDL_DBG_BP_PORT THEN 255
    ELSE DWORD_MAX

\* sdl_dbg_parse_breakpoint after its token loop has left st
ParseScanned(d, st) ==
    IF st.err # "" THEN [ok |-> FALSE, err |-> st.err, out |-> ZeroBp]
    ELSE IF st.addr_token = ""
    THEN [ok |-> FALSE, err |-> "Missing address.", out |-> ZeroBp]
    ELSE
    LET mode == ModeForType(st.type, st.mode)
        mask == MaskForType(st.type, st.have_mask, st.mask)
    IN  IF st.type # SDL_DBG_BP_OPCODE /\ mode = 0
        THEN [ok |-> FALSE, err |-> "Invalid access mode.",
              out |-> [ZeroBp EXCEPT !.type = st.type]]
        ELSE The({
            IF ~a.ok
            THEN [ok |-> FALSE, err |-> a.err,
                  out |-> [ZeroBp EXCEPT !.type = st.type, !.mode = mode,
                                         !.start = a.start]]
            ELSE LET out == [ZeroBp EXCEPT !.type = st.type, !.mode = mode,
                                           !.start = BitAnd(a.start, mask),
                                           !.end = BitAnd(a.end, mask),
                                           !.mask = mask]
                 IN  IF out.end < out.start
                     THEN [ok |-> FALSE, err |-> "End < start.", out |-> out]
                     ELSE [ok |-> TRUE, err |-> "", out |-> out]
            : a \in {sdl_dbg_parse_bp_addr(d.calc, st.type, st.addr_token)}})

\* the result is [ok, err, out]: the code's return value, the message left
\* in err and the entry left in *out
sdl_dbg_parse_breakpoint(d, line) ==
    IF line = "" THEN [ok |-> FALSE, err |-> "Empty input.", out |-> ZeroBp]
    ELSE The({ParseScanned(d, st) :
                st \in {ScanTokens([type |-> d.last_bp_type,
                                    mode |-> d.last_bp_mode,
                                    type_set |-> FALSE, mode_set |-> FALSE,
                                    mask |-> 0, have_mask |-> FALSE,
                                    addr_token |-> "", err |-> ""],
                                   toks, 1) :
                           toks \in {g_strsplit_set(line)}}})

\* the digits of n in base 16, capitals
RECURSIVE HexOf(_)
HexOf(n) ==
    IF n < 16 THEN Ch(HexUpper, n + 1)
    ELSE HexOf(n \div 16) \o Ch(HexUpper, (n % 16) + 1)

RECURSIVE PadZero(_, _)
PadZero(s, width) == IF Len(s) >= width THEN s ELSE PadZero("0" \o s, width)

\* g_snprintf(.., "%0*X", width, n)
FormatHex(width, n) == PadZero(HexOf(n), width)

sdl_dbg_format_breakpoint(bp) ==
    LET type_label == CASE bp.type = SDL_DBG_BP_LOGICAL -> "L"
                        [] bp.type = SDL_DBG_BP_PHYSICAL -> "P"
                        [] bp.type = SDL_DBG_BP_PORT -> "IO"
                        [] bp.type = SDL_DBG_BP_OPCODE -> "OP"
                        [] OTHER -> "?"
        addr_width == CASE bp.type = SDL_DBG_BP_PHYSICAL ->
                              IF bp.end > 65535 THEN 6 ELSE 4
                        [] bp.type = SDL_DBG_BP_PORT -> 2
                        [] bp.type = SDL_DBG_BP_OPCODE ->
                              IF bp.end > 65535 THEN 6 ELSE 2
                        [] OTHER -> 4
        mode_buf == (IF BitAnd(bp.mode, SDL_DBG_BP_READ) # 0 THEN "R" ELSE "")
                    \o (IF BitAnd(bp.mode, SDL_DBG_BP_WRITE) # 0 THEN "W" ELSE "")
                    \o (IF BitAnd(bp.mode, SDL_DBG_BP_EXEC) # 0 THEN "X" ELSE "")
        addr_buf == IF bp.start = bp.end
                    THEN FormatHex(addr_width, bp.start)
                    ELSE FormatHex(addr_width, bp.start) \o "-"
                            \o FormatHex(addr_width, bp.end)
    IN  type_label \o " " \o mode_buf \o " " \o addr_buf
           \o (IF bp.disabled THEN " (disabled)" ELSE "")

(***************************************************************************)
(* The input line of the breakpoint dialog.  d.input holds input_mode      *)
(* ("NONE", "BP_ADD", "BP_EDIT"), input_buf, input_error and               *)
(* input_bp_index.                                                         *)
(***************************************************************************)
SDL_DEBUGGER_INPUT_MAX == 128

sdl_dbg_start_input(d, mode, prefill) ==
    [d EXCEPT !.input.mode = mode, !.input.buf = prefill, !.input.error = ""]

sdl_dbg_cancel_input(d) ==
    [d EXCEPT !.input.mode = "NONE", !.input.buf = "", !.input.error = ""]

\* a faulty variant of sdl_dbg_accept_input: a line that does not parse is
\* applied as far as it was read
AcceptInputUnchecked(d) ==
    IF d.input.mode \in {"BP_ADD", "BP_EDIT"}
    THEN The({IF ~p.ok
              THEN [sdl_dbg_apply_breakpoint(
                        d, p.out,
                        IF d.input.mode = "BP_EDIT" THEN d.input.bp_index + 1
                        ELSE 0) EXCEPT !.input.error = p.err]
              ELSE sdl_dbg_cancel_input(
                       sdl_dbg_apply_breakpoint(
                           d, p.out,
                           IF d.input.mode = "BP_EDIT" THEN d.input.bp_index + 1
                           ELSE 0))
              : p \in {sdl_dbg_parse_breakpoint(d, d.input.buf)}})
    ELSE d

sdl_dbg_accept_input(d) ==
    IF d.input.mode \in {"BP_ADD", "BP_EDIT"}
    THEN The({IF ~p.ok THEN [d EXCEPT !.input.error = p.err]
              ELSE sdl_dbg_cancel_input(
                       sdl_dbg_apply_breakpoint(
                           d, p.out,
                           IF d.input.mode = "BP_EDIT" THEN d.input.bp_index + 1
                           ELSE 0))
              : p \in {sdl_dbg_parse_breakpoint(d, d.input.buf)}})
    ELSE d

\* the branch of sdl_dbg_handle_key for the key a of the dialog, with the
\* disassembly cursor at addr
DialogAddKey(d, addr) ==
    sdl_dbg_start_input(
        [d EXCEPT !.input.bp_index = -1], "BP_ADD",
        (IF d.mem_logical THEN "logical" ELSE "physical") \o " x "
            \o FormatHex(IF d.mem_logical THEN 4 ELSE 6, addr))

\* the branch of sdl_dbg_handle_key for the key e of the dialog
DialogEditKey(d) ==
    IF d.bp_selected < Len(d.breakpoints)
    THEN sdl_dbg_start_input(
             [d EXCEPT !.input.bp_index = d.bp_selected], "BP_EDIT",
             sdl_dbg_format_breakpoint(d.breakpoints[d.bp_selected + 1]))
    ELSE d

\* the branch of sdl_dbg_handle_key for Backspace in the input line
InputBackspace(d) ==
    IF Len(d.input.buf) > 0
    THEN [d EXCEPT !.input.buf = SubSeq(d.input.buf, 1, Len(d.input.buf) - 1)]
    ELSE d

\* the SDL_TEXTINPUT event of tilem_sdl_debugger_handle_event
InputText(d, text) ==
    IF d.input.mode # "NONE"
    THEN IF Len(d.input.buf) + Len(text) < SDL_DEBUGGER_INPUT_MAX - 1
         THEN [d EXCEPT !.input.buf = d.input.buf \o text]
         ELSE d
    ELSE d

\* Backspace, as many times as the line has characters
ClearLine(d) == [d EXCEPT !.input.buf = ""]

(***************************************************************************)
(* The step controller.                                                    *)
(***************************************************************************)
TILEM_BREAK_EXECUTE == [kind |-> "EXECUTE", phys |-> FALSE]
TILEM_BREAK_MEM_EXEC == [kind |-> "MEM_EXEC", phys |-> FALSE]

\* a faulty variant of sdl_dbg_cancel_step_bp: the handle is forgotten and the
\* registration is left with the core
CancelForgetsHandle(d) == [d EXCEPT !.step_bp = 0]

sdl_dbg_cancel_step_bp(d) ==
    IF d.step_bp = 0 \/ ~d.calc
    THEN d
    ELSE [d EXCEPT !.core = tilem_z80_remove_breakpoint(d.core, d.step_bp),
                   !.step_bp = 0]

\* a faulty variant of sdl_dbg_bptest_step: HALT is not told apart
BptestStepAlways(z, op) == 1

\* op is the opcode just executed, z the registers after it
sdl_dbg_bptest_step(z, op) ==
    IF op # 118 /\ AndNot(op, 8192) # 56694
    THEN 1
    ELSE IF z.interrupts # 0 /\ z.iff1 THEN 1 ELSE 0

\* the opcode with a DD / FD prefix taken off: (op & ~0x20ff) == 0xdd00
StripIndexPrefix(op) ==
    IF AndNot(op, 8447) = 56576 THEN BitAnd(op, 255) ELSE op

\* a faulty variant of StepOverFollowsPc: CALL and CALL cc are followed too
StepOverFollowsCalls(op) ==
    \/ op = 195 \/ op = 201 \/ op = 233 \/ op = 205
    \/ AndNot(op, 56) = 0
    \/ AndNot(op, 56) = 194
    \/ AndNot(op, 56) = 192
    \/ AndNot(op, 56) = 196
    \/ AndNot(op, 56) = 60741

\* the opcodes after which sdl_dbg_bptest_step_over stops at the program counter
StepOverFollowsPc(op) ==
    \/ op = 195 \/ op = 201 \/ op = 233
    \/ AndNot(op, 56) = 0
    \/ AndNot(op, 56) = 194
    \/ AndNot(op, 56) = 192
    \/ AndNot(op, 56) = 60741

\* a faulty variant of sdl_dbg_bptest_step_over: the test itself answers 1
\* (stop) at the target and keeps its registration
BptestStepOverStopsItself(d, z, op) ==
    LET destaddr == Word(IF StepOverFollowsPc(StripIndexPrefix(op))
                         THEN z.pc ELSE d.step_next_addr)
    IN  [d |-> d, ret |-> IF Word(z.pc) = destaddr THEN 1 ELSE 0]

\* the trigger of step-over: moves the trampoline and answers 0 (continue)
sdl_dbg_bptest_step_over(d, z, op) ==
    LET destaddr == Word(IF StepOverFollowsPc(StripIndexPrefix(op))
                         THEN z.pc ELSE d.step_next_addr)
        c1 == tilem_z80_remove_breakpoint(d.core, d.step_bp)
    IN  [d |-> [d EXCEPT !.core = tilem_z80_add_breakpoint(
                                      c1, TILEM_BREAK_MEM_EXEC, destaddr,
                                      destaddr, 65535, "none", 0, "step"),
                         !.step_bp = NewHandle(c1)],
         ret |-> 0]

FlagTest(f, bit) == BitAnd(f, bit)
FlagClear(f, bit) == IF BitAnd(f, bit) = 0 THEN 1 ELSE 0

\* a faulty variant of sdl_dbg_bptest_finish: the stack pointer is not looked at
BptestFinishAnySp(z, op, exitsp) ==
    LET o == StripIndexPrefix(op)
    IN  IF o \in {201, 233} THEN 1 ELSE 0

\* a faulty variant of sdl_dbg_bptest_finish: a stack pointer equal to the
\* threshold is taken to be above it
BptestFinishNotStrict(z, op, exitsp) ==
    IF z.sp >= exitsp /\ StripIndexPrefix(op) \in {201, 233} THEN 1 ELSE 0

\* a faulty variant of sdl_dbg_bptest_finish: the stack pointer is compared
\* with the threshold as a distance on the 16-bit circle, so that a pointer
\* that has wrapped past 0xFFFF counts as above it
BptestFinishWrapAware(z, op, exitsp) ==
    IF (z.sp - exitsp + 65536) % 65536 \notin 1..32767 THEN 0
    ELSE IF StripIndexPrefix(op) \in {201, 233} THEN 1 ELSE 0

\* the trigger of finish; exitsp is the stack pointer the session started with
sdl_dbg_bptest_finish(z, op, exitsp) ==
    IF z.sp <= exitsp THEN 0
    ELSE LET o == StripIndexPrefix(op)
         IN  CASE o \in {201, 233, 60741, 60749, 60757, 60765,
                         60773, 60781, 60789, 60797} -> 1
               [] o = 192 -> FlagClear(z.f, 64)
               [] o = 200 -> FlagTest(z.f, 64)
               [] o = 208 -> FlagClear(z.f, 1)
               [] o = 216 -> FlagTest(z.f, 1)
               [] o = 224 -> FlagClear(z.f, 4)
               [] o = 232 -> FlagTest(z.f, 4)
               [] o = 240 -> FlagClear(z.f, 128)
               [] o = 248 -> FlagTest(z.f, 128)
               [] OTHER -> 0

sdl_dbg_run_with_step_condition(d, func, data) ==
    IF ~d.calc THEN d
    ELSE tilem_calc_emulator_run(
             [d EXCEPT !.core = tilem_z80_add_breakpoint(
                                    d.core, TILEM_BREAK_EXECUTE, 0, 0, 0,
                                    func, data, "step"),
                       !.step_bp = NewHandle(d.core)])

sdl_dbg_step(d) ==
    IF ~d.calc \/ ~d.paused THEN d
    ELSE sdl_dbg_run_with_step_condition(sdl_dbg_cancel_step_bp(d), "step", 0)

\* sdl_dbg_step_over, dis being what tilem_disasm_disassemble does with the
\* address it is given to write the next address to: dis.written says whether
\* it writes it, dis.next is what it writes
StepOverNext(d, dis) ==
    IF ~d.calc \/ ~d.paused THEN d
    ELSE sdl_dbg_run_with_step_condition(
             [sdl_dbg_cancel_step_bp(d) EXCEPT
                  !.step_next_addr = IF dis.written THEN dis.next ELSE @],
             "step_over", 0)

sdl_dbg_step_over(d) ==
    StepOverNext(d, [written |-> TRUE, next |-> tilem_disasm_disassemble(z80.pc)])

sdl_dbg_finish(d) ==
    IF ~d.calc \/ ~d.paused THEN d
    ELSE sdl_dbg_run_with_step_condition(sdl_dbg_cancel_step_bp(d),
                                         "finish", z80.sp)

(***************************************************************************)
(* The debugger's window and life cycle.                                   *)
(***************************************************************************)
tilem_sdl_debugger_show(d) ==
    IF ~d.calc THEN d
    ELSE sdl_dbg_cancel_step_bp(
             tilem_calc_emulator_pause(
                 [d EXCEPT !.visible = TRUE, !.resume_on_hide = ~d.paused]))

tilem_sdl_debugger_hide(d) ==
    LET c == IF d.input.mode # "NONE" THEN sdl_dbg_cancel_input(d) ELSE d
        h == [c EXCEPT !.visible = FALSE]
    IN  IF d.resume_on_hide THEN tilem_calc_emulator_run(h) ELSE h

tilem_sdl_debugger_calc_changed(d) ==
    sdl_dbg_cancel_step_bp(sdl_dbg_clear_breakpoints(d))

tilem_sdl_debugger_free(d) == sdl_dbg_clear_breakpoints(d)

\* a faulty variant of sdl_dbg_is_paused: the emulator counts as paused
\* while it runs
IsPausedAlways(d) == TRUE

sdl_dbg_is_paused(d) == d.paused

\* sdl_dbg_menu_action_enabled for the actions of the Debug menu and toolbar
sdl_dbg_menu_action_enabled(d, action) ==
    CASE action = "RUN" -> sdl_dbg_is_paused(d)
      [] action = "PAUSE" -> ~sdl_dbg_is_paused(d)
      [] action \in {"STEP", "STEP_OVER", "FINISH", "BREAKPOINTS",
                     "VIEW_LOGICAL", "VIEW_ABSOLUTE", "GO_ADDRESS", "GO_PC",
                     "NEXT_STACK"} -> sdl_dbg_is_paused(d)
      [] OTHER -> TRUE

sdl_dbg_handle_menu_action(d, action) ==
    IF ~sdl_dbg_menu_action_enabled(d, action) THEN d
    ELSE CASE action = "RUN" -> tilem_calc_emulator_run(d)
           [] action = "PAUSE" -> tilem_calc_emulator_pause(d)
           [] action = "STEP" -> sdl_dbg_step(d)
           [] action = "STEP_OVER" -> sdl_dbg_step_over(d)
           [] action = "FINISH" -> sdl_dbg_finish(d)
           [] OTHER -> d

\* a faulty variant of sdl_dbg_handle_key: the step keys start a session
\* whether the emulator is paused or not
HandleKeyUnguarded(d, sym) ==
    CASE sym = "ESCAPE" -> tilem_calc_emulator_pause(d)
      [] sym = "F5" -> tilem_calc_emulator_run(d)
      [] sym = "F7" -> sdl_dbg_run_with_step_condition(sdl_dbg_cancel_step_bp(d),
                                                       "step", 0)
      [] sym = "F8" -> sdl_dbg_run_with_step_condition(sdl_dbg_cancel_step_bp(d),
                                                       "step_over", 0)
      [] sym = "F9" -> sdl_dbg_run_with_step_condition(sdl_dbg_cancel_step_bp(d),
                                                       "finish", 0)
      [] OTHER -> d

\* sdl_dbg_handle_key with no menu, input line or dialog open
sdl_dbg_handle_key(d, sym) ==
    IF ~sdl_dbg_is_paused(d)
    THEN IF sym = "ESCAPE" THEN tilem_calc_emulator_pause(d) ELSE d
    ELSE CASE sym = "ESCAPE" -> tilem_calc_emulator_pause(d)
           [] sym = "F5" -> tilem_calc_emulator_run(d)
           [] sym = "F7" -> sdl_dbg_step(d)
           [] sym = "F8" -> sdl_dbg_step_over(d)
           [] sym = "F9" -> sdl_dbg_finish(d)
           [] OTHER -> d

(***************************************************************************)
(* The state machine.                                                      *)
(***************************************************************************)
\* the debugger state record of the current state
Cur ==
    [calc |-> calc, paused |-> paused, core |-> core, step_bp |-> step_bp,
     step_next_addr |-> step_next_addr, breakpoints |-> breakpoints,
     mem_logical |-> mem_logical, last_bp_type |-> last_bp_type,
     last_bp_mode |-> last_bp_mode, visible |-> visible,
     resume_on_hide |-> resume_on_hide, bp_selected |-> bp_selected,
     input |-> input, thread |-> thread]

NoAct == [op |-> "other", paused0 |-> FALSE]
NoSess == [kind |-> "none", pc0 |-> 0, sp0 |-> 0, depth0 |-> 0, state |-> "none"]
NoInput == [mode |-> "NONE", buf |-> "", error |-> "", bp_index |-> 0]
\* the command thread between two commands: it does not hold the lock, and
\* the disassembly view is at address 0
NoThread ==
    [pc |-> "idle", ret |-> "idle", held |-> FALSE, func |-> "none",
     data |-> 0, delta |-> 0, idx |-> 0, bp |-> ZeroBp,
     access |-> [kind |-> "none", locked |-> FALSE],
     returned |-> "none", raced |-> FALSE,
     disasm_base |-> 0, disasm_cursor |-> 0]
NoProbe == [fn |-> "none", op |-> 0, f |-> 0, sp |-> 0, exitsp |-> 0,
            interrupts |-> 0, iff1 |-> FALSE, ret |-> 0]

\* the history of what paused the CPU, after a command that leaves state d
StopAfter(d) ==
    IF ~d.paused THEN "none"
    ELSE IF ~paused THEN "other" ELSE stop

\* the history of a session's state: it is live until the CPU is paused, stopped
\* while the CPU stays paused by the session's own trigger, and stale after that
SessState(st, nowpaused, cause) ==
    CASE st = "live" ->
            IF ~nowpaused THEN "live"
            ELSE IF cause = "step" THEN "stopped" ELSE "stale"
      [] st = "stopped" -> IF nowpaused THEN "stopped" ELSE "stale"
      [] OTHER -> st

StaleSess == [NoSess EXCEPT !.state = "stale"]

\* the session's history when the CPU is left paused or not; what a session
\* was is forgotten once it is stale
SessNext(nowpaused, cause) ==
    IF SessState(sess.state, nowpaused, cause) = "stale" THEN StaleSess
    ELSE [sess EXCEPT !.state = SessState(sess.state, nowpaused, cause)]

\* the history of the step session, after a command of the given kind that
\* leaves state d: the session is gone with its handle, and a new one has
\* started when the command has set the paused CPU running with a handle
SessAfter(d, kind) ==
    IF d.step_bp = 0 THEN NoSess
    ELSE IF kind # "none" /\ paused /\ ~d.paused
         THEN [kind |-> kind, pc0 |-> z80.pc, sp0 |-> z80.sp, depth0 |-> Depth,
               state |-> "live"]
         ELSE SessNext(d.paused, "other")

\* the next state is the debugger state d, after the command a
Commit(d, a, kind) ==
    /\ calc' = d.calc
    /\ paused' = d.paused
    /\ core' = d.core
    /\ step_bp' = d.step_bp
    /\ step_next_addr' = d.step_next_addr
    /\ breakpoints' = d.breakpoints
    /\ mem_logical' = d.mem_logical
    /\ last_bp_type' = d.last_bp_type
    /\ last_bp_mode' = d.last_bp_mode
    /\ visible' = d.visible
    /\ resume_on_hide' = d.resume_on_hide
    /\ bp_selected' = d.bp_selected
    /\ input' = d.input
    /\ thread' = d.thread
    /\ act' = a
    /\ stop' = StopAfter(d)
    /\ sess' = SessAfter(d, kind)
    /\ UNCHANGED <<z80, stack, freed, probe>>

CmdAct(op) == [op |-> op, paused0 |-> paused]

InitSPs == {65535}

\* the store entries the breakpoint dialog's input line is accepted with
BpDefs ==
    { [type |-> SDL_DBG_BP_LOGICAL, mode |-> 7, start |-> 16, end |-> 21,
       mask |-> 65535, disabled |-> FALSE, id |-> NoIds],
      [type |-> SDL_DBG_BP_OPCODE, mode |-> SDL_DBG_BP_EXEC, start |-> 201,
       end |-> 201, mask |-> DWORD_MAX, disabled |-> FALSE, id |-> NoIds] }

\* the addresses the disassembly cursor toggles a breakpoint at
ToggleAddrs == {18}

\* the debugger as tilem_sdl_debugger_new leaves it
NewDebugger ==
    /\ core = {}
    /\ stack = <<>>
    /\ step_bp = 0
    /\ step_next_addr = 0
    /\ breakpoints = <<>>
    /\ mem_logical = TRUE
    /\ last_bp_type = SDL_DBG_BP_LOGICAL
    /\ last_bp_mode = SDL_DBG_BP_EXEC
    /\ visible = FALSE
    /\ resume_on_hide = FALSE
    /\ bp_selected = 0
    /\ input = NoInput
    /\ thread = NoThread
    /\ freed = FALSE
    /\ act = NoAct
    /\ sess = NoSess
    /\ stop = "none"

\* the emulator runs from the start, with or without a calculator loaded
Init ==
    /\ calc \in BOOLEAN
    /\ paused = FALSE
    /\ z80 \in [pc : {0}, sp : InitSPs, f : {0}, iff1 : {TRUE}, interrupts : {0}]
    /\ NewDebugger
    /\ probe = NoProbe

\* sdl_handle_debugger: the main window shows or hides the debugger
ShowDebugger ==
    /\ ~freed /\ ~visible
    /\ Commit(tilem_sdl_debugger_show(Cur), NoAct, "none")

HideDebugger ==
    /\ ~freed /\ visible
    /\ Commit(tilem_sdl_debugger_hide(Cur), NoAct, "none")

\* F7 / F8 / F9 in the debugger window
KeyStep ==
    /\ ~freed /\ visible
    /\ \E k \in {<<"F7", "into">>, <<"F8", "over">>, <<"F9", "finish">>} :
          Commit(sdl_dbg_handle_key(Cur, k[1]), CmdAct("step"), k[2])

\* Step, Step Over, Finish of the Debug menu and the toolbar
MenuStep ==
    /\ ~freed /\ visible
    /\ \E k \in {<<"STEP", "into">>, <<"STEP_OVER", "over">>,
                 <<"FINISH", "finish">>} :
          Commit(sdl_dbg_handle_menu_action(Cur, k[1]), CmdAct("step"), k[2])

\* Escape and F5 in the debugger window
KeyRunPause ==
    /\ ~freed /\ visible
    /\ \E k \in {<<"ESCAPE", "pause">>, <<"F5", "run">>} :
          Commit(sdl_dbg_handle_key(Cur, k[1]), CmdAct(k[2]), "none")

\* Run and Pause of the Debug menu and the toolbar
MenuRunPause ==
    /\ ~freed /\ visible
    /\ \E k \in {<<"PAUSE", "pause">>, <<"RUN", "run">>} :
          Commit(sdl_dbg_handle_menu_action(Cur, k[1]), CmdAct(k[2]), "none")

\* F2, or a right click on a line of the disassembly
ToggleBreakpoint ==
    /\ ~freed /\ visible /\ sdl_dbg_is_paused(Cur)
    /\ \E addr \in ToggleAddrs :
          /\ (sdl_dbg_find_exec_breakpoint(breakpoints, addr, mem_logical) = 0
                 => Len(breakpoints) < MaxBps)
          /\ Commit(sdl_dbg_toggle_breakpoint(Cur, addr),
                    [op |-> "F2", paused0 |-> TRUE, addr |-> addr,
                     n |-> IF act.op = "F2" /\ act.addr = addr /\ act.n = 1
                           THEN 2 ELSE 1],
                    "none")

\* Ctrl+M, View > Logical / Absolute
SetMemMode ==
    /\ ~freed /\ visible /\ sdl_dbg_is_paused(Cur)
    /\ Commit([Cur EXCEPT !.mem_logical = ~mem_logical], NoAct, "none")

\* the dialog's input line accepted for an added breakpoint
AcceptAdd ==
    /\ ~freed /\ visible
    /\ Len(breakpoints) < MaxBps
    /\ \E bp \in BpDefs :
          Commit(sdl_dbg_apply_breakpoint(Cur, bp, 0), NoAct, "none")

\* the key e of the dialog and the input line accepted for the selected entry
AcceptEdit ==
    /\ ~freed /\ visible
    /\ bp_selected < Len(breakpoints)
    /\ \E bp \in BpDefs :
          Commit(sdl_dbg_apply_breakpoint(Cur, bp, bp_selected + 1), NoAct, "none")

DialogDelete ==
    /\ ~freed /\ visible /\ input.mode = "NONE"
    /\ Commit(DialogDeleteKey(Cur), CmdAct("delete"), "none")

DialogToggle ==
    /\ ~freed /\ visible /\ input.mode = "NONE"
    /\ Commit(DialogToggleKey(Cur), CmdAct("toggle"), "none")

\* the keys Up and Down of the dialog
DialogMove ==
    /\ ~freed /\ visible /\ input.mode = "NONE"
    /\ \/ /\ bp_selected > 0
          /\ Commit([Cur EXCEPT !.bp_selected = bp_selected - 1], NoAct, "none")
       \/ /\ bp_selected + 1 < Len(breakpoints)
          /\ Commit([Cur EXCEPT !.bp_selected = bp_selected + 1], NoAct, "none")

\* the lines typed into the input line of the dialog
InputLines ==
    {"L rwx 10-15", "p w 12", "io rw 10", "op C9",
     "", "x", "zz", "10-zz", "10 mask=zz", "15-10"}

\* the key a of the dialog, with the disassembly cursor on a line
DialogAdd ==
    /\ ~freed /\ visible /\ input.mode = "NONE"
    /\ \E addr \in ToggleAddrs :
          Commit(DialogAddKey(Cur, addr), NoAct, "none")

\* the key e of the dialog
DialogEdit ==
    /\ ~freed /\ visible /\ input.mode = "NONE"
    /\ Commit(DialogEditKey(Cur), NoAct, "none")

\* the input line is emptied with Backspace and a line is typed
InputRetype ==
    /\ ~freed /\ visible /\ input.mode # "NONE"
    /\ \E t \in InputLines :
          Commit(InputText(ClearLine(Cur), t), NoAct, "none")

\* Return in the input line
InputAccept ==
    /\ ~freed /\ visible /\ input.mode # "NONE"
    /\ input.mode = "BP_ADD" => Len(breakpoints) < MaxBps
    /\ Commit(sdl_dbg_accept_input(Cur), CmdAct("accept"), "none")

\* Escape in the input line
InputCancel ==
    /\ ~freed /\ visible /\ input.mode # "NONE"
    /\ Commit(sdl_dbg_cancel_input(Cur), NoAct, "none")

\* sdl_update_after_load: the emulator has loaded a calculator (reload: a new
\* core, with an empty breakpoint table) and the debugger is told
CalcChanged ==
    /\ ~freed
    /\ \E reload \in BOOLEAN :
          /\ reload \/ calc
          /\ LET d0 == IF reload THEN [Cur EXCEPT !.calc = TRUE, !.core = {}]
                                 ELSE Cur
             IN  Commit(tilem_sdl_debugger_calc_changed(d0), NoAct, "none")

\* the end of main: the emulator is paused, then sdl_cleanup frees the debugger
Cleanup ==
    /\ ~freed
    /\ LET d == tilem_sdl_debugger_free(tilem_calc_emulator_pause(Cur))
       IN  /\ calc' = d.calc /\ paused' = d.paused /\ core' = d.core
           /\ breakpoints' = d.breakpoints
           /\ freed' = TRUE
           /\ act' = NoAct
           /\ stop' = StopAfter(d)
    /\ UNCHANGED <<z80, stack, step_bp, step_next_addr, mem_logical, last_bp_type,
                   last_bp_mode, visible, resume_on_hide, bp_selected, input, sess,
                   probe, thread>>

(***************************************************************************)
(* The emulator's worker thread: one instruction of the core per step,     *)
(* with the core's breakpoint checks.  A MEM_EXEC registration is tested   *)
(* on the fetch, before the instruction executes; an EXECUTE registration  *)
(* after it, with the opcode, and its trigger test (if any) decides.       *)
(***************************************************************************)
LogicalToPhysical(a) == a

InRange(x, lo, hi) == x >= lo /\ x <= hi

ExecHits(c, a) ==
    {r \in c : /\ r.kind = "MEM_EXEC"
               /\ InRange(BitAnd(IF r.phys THEN LogicalToPhysical(a) ELSE a, r.mask),
                          r.start, r.end)}

OpHits(c, op) ==
    {r \in c : r.kind = "EXECUTE" /\ InRange(BitAnd(op, r.mask), r.start, r.end)}

\* the answer of registration r's trigger test (other than step-over's)
TriggerStops(r, z, op) ==
    CASE r.func = "none" -> TRUE
      [] r.func = "step" -> sdl_dbg_bptest_step(z, op) # 0
      [] r.func = "finish" -> sdl_dbg_bptest_finish(z, op, r.data) # 0
      [] r.func = "step_over" -> FALSE

\* the step-over trigger called n times
RECURSIVE CallStepOver(_, _, _, _)
CallStepOver(d, z, op, n) ==
    IF n = 0 THEN d
    ELSE CallStepOver(sdl_dbg_bptest_step_over(d, z, op).d, z, op, n - 1)

StopCause(rs) == IF \E r \in rs : r.owner = "step" THEN "step" ELSE "other"

WorkerRun ==
    /\ calc /\ ~paused /\ ~freed
    /\ LET fetch == ExecHits(core, z80.pc)
       IN  IF fetch # {}
           THEN /\ paused' = TRUE
                /\ stop' = StopCause(fetch)
                /\ UNCHANGED <<core, z80, stack, step_bp>>
           ELSE \E fl \in (IF Depth >= MaxDepth THEN {0} ELSE FlagVals) :
                LET op == Mem(z80.pc)
                    x == Execute(z80, stack, fl)
                    hits == OpHits(core, op)
                    stops == {r \in hits : TriggerStops(r, x.z, op)}
                    d == CallStepOver(Cur, x.z, op,
                             Cardinality({r \in hits : r.func = "step_over"}))
                IN  /\ z80' = x.z
                    /\ stack' = x.stk
                    /\ core' = d.core
                    /\ step_bp' = d.step_bp
                    /\ paused' = (stops # {})
                    /\ stop' = IF stops = {} THEN "none" ELSE StopCause(stops)
    /\ act' = NoAct
    /\ sess' = SessNext(paused', stop')
    /\ UNCHANGED <<calc, step_next_addr, breakpoints, mem_logical, last_bp_type,
                   last_bp_mode, visible, resume_on_hide, bp_selected, input, freed,
                   probe>>

WorkerStep ==
    /\ WorkerRun
    /\ UNCHANGED thread

\* the calculator's hardware raises an interrupt (followed where the CPU is
\* about to halt or has halted)
RaiseInterrupt ==
    /\ calc /\ ~paused /\ ~freed
    /\ z80.interrupts = 0 /\ IsHalt(Mem(z80.pc))
    /\ z80' = [z80 EXCEPT !.interrupts = 1]
    /\ act' = NoAct
    /\ UNCHANGED <<calc, paused, core, stack, step_bp, step_next_addr, breakpoints,
                   mem_logical, last_bp_type, last_bp_mode, visible,
                   resume_on_hide, bp_selected, input, freed, sess, stop, probe, thread>>

\* the CPU accepts a pending interrupt between two instructions and leaves HALT;
\* the interrupt routine itself is not followed
ServiceInterrupt ==
    /\ calc /\ ~paused /\ ~freed
    /\ z80.interrupts # 0 /\ z80.iff1
    /\ z80' = [z80 EXCEPT !.interrupts = 0,
                          !.pc = IF IsHalt(Mem(z80.pc)) THEN Word(z80.pc + 1)
                                 ELSE z80.pc]
    /\ act' = NoAct
    /\ UNCHANGED <<calc, paused, core, stack, step_bp, step_next_addr, breakpoints,
                   mem_logical, last_bp_type, last_bp_mode, visible,
                   resume_on_hide, bp_selected, input, freed, sess, stop, probe, thread>>

\* the step controller, the disassembly's breakpoint toggle and the worker
Next ==
    \/ ShowDebugger
    \/ KeyStep
    \/ MenuStep
    \/ KeyRunPause
    \/ MenuRunPause
    \/ ToggleBreakpoint
    \/ CalcChanged
    \/ Cleanup
    \/ WorkerStep
    \/ RaiseInterrupt
    \/ ServiceInterrupt

Spec == Init /\ [][Next]_vars

\* the breakpoint store behind the dialog and the disassembly
NextStore ==
    \/ ShowDebugger
    \/ HideDebugger
    \/ ToggleBreakpoint
    \/ SetMemMode
    \/ AcceptAdd
    \/ AcceptEdit
    \/ DialogDelete
    \/ DialogToggle
    \/ DialogMove
    \/ CalcChanged

SpecStore == Init /\ [][NextStore]_vars

\* the breakpoint dialog with its input line
NextInput ==
    \/ ShowDebugger
    \/ DialogAdd
    \/ DialogEdit
    \/ InputRetype
    \/ InputAccept
    \/ InputCancel
    \/ DialogToggle

SpecInput == Init /\ [][NextInput]_vars

\* the store under its four writers, each step marked with what was asked
\* for: a definition added, a definition put in place of the selected entry,
\* the selected entry deleted, the entry at the cursor toggled
OrderAdd ==
    /\ ~freed /\ visible
    /\ Len(breakpoints) < MaxBps
    /\ \E bp \in BpDefs :
          Commit(sdl_dbg_apply_breakpoint(Cur, bp, 0),
                 [op |-> "add", paused0 |-> paused, bp |-> bp], "none")

OrderEdit ==
    /\ ~freed /\ visible
    /\ bp_selected < Len(breakpoints)
    /\ \E bp \in BpDefs :
          Commit(sdl_dbg_apply_breakpoint(Cur, bp, bp_selected + 1),
                 [op |-> "edit", paused0 |-> paused, bp |-> bp], "none")

NextOrder ==
    \/ ShowDebugger
    \/ ToggleBreakpoint
    \/ OrderAdd
    \/ OrderEdit
    \/ DialogDelete
    \/ DialogToggle
    \/ DialogMove

SpecOrder == Init /\ [][NextOrder]_vars

(***************************************************************************)
(* The trigger tests on their own: the inputs are drawn in the initial     *)
(* state, and one action applies each test to them.                        *)
(***************************************************************************)
\* opcodes as the core hands them to a trigger: one byte, or a prefix byte
\* (CB, DD, ED, FD) and one byte
ProbeOps ==
    {0, 60, 69, 118, 193, 195, 201, 205, 233}
        \cup {192 + 8 * k : k \in 0..7}
        \cup {52086}                             \* CB 76
        \cup {56645, 56694, 56768, 56777, 56809} \* DD 45, DD 76, DD C0, DD C9, DD E9
        \cup {60741 + 8 * k : k \in 0..7}        \* ED 45 .. ED 7D
        \cup {60790}                             \* ED 76
        \cup {64886, 64969, 64984, 65001}        \* FD 76, FD C9, FD D8, FD E9

ProbeFlags == {0, 1, 4, 64, 128, 186, 251, 255}

ProbeSPs == {0, 1, 65534, 65535}

ProbeInputs ==
    [fn : {"none"}, op : ProbeOps, f : ProbeFlags, sp : ProbeSPs,
     exitsp : ProbeSPs, interrupts : {0, 1}, iff1 : BOOLEAN, ret : {0}]

\* the registers a trigger test reads, as the probe gives them
ProbeRegs(p) ==
    [pc |-> 0, sp |-> p.sp, f |-> p.f, iff1 |-> p.iff1, interrupts |-> p.interrupts]

InitTrig ==
    /\ calc = TRUE
    /\ paused = TRUE
    /\ z80 = [pc |-> 0, sp |-> 65535, f |-> 0, iff1 |-> TRUE, interrupts |-> 0]
    /\ NewDebugger
    /\ probe \in ProbeInputs

TestStep ==
    /\ probe.fn = "none"
    /\ probe' = [probe EXCEPT !.fn = "step",
                              !.ret = sdl_dbg_bptest_step(ProbeRegs(probe), probe.op)]
    /\ UNCHANGED <<calc, paused, core, z80, stack, step_bp, step_next_addr,
                   breakpoints, mem_logical, last_bp_type, last_bp_mode, visible,
                   resume_on_hide, bp_selected, input, freed, act, sess, stop,
                   thread>>

TestFinish ==
    /\ probe.fn = "none"
    /\ probe' = [probe EXCEPT !.fn = "finish",
                              !.ret = sdl_dbg_bptest_finish(ProbeRegs(probe),
                                                            probe.op, probe.exitsp)]
    /\ UNCHANGED <<calc, paused, core, z80, stack, step_bp, step_next_addr,
                   breakpoints, mem_logical, last_bp_type, last_bp_mode, visible,
                   resume_on_hide, bp_selected, input, freed, act, sess, stop,
                   thread>>

NextTrig ==
    \/ TestStep
    \/ TestFinish

SpecTrig == InitTrig /\ [][NextTrig]_vars

(***************************************************************************)
(* The text codec on its own: an entry and a line are drawn in the initial *)
(* state, and one action applies sdl_dbg_format_breakpoint, one applies    *)
(* sdl_dbg_parse_breakpoint to the formatted entry, and one applies        *)
(* sdl_dbg_parse_breakpoint to the line and formats what it read.          *)
(***************************************************************************)
CodecAddrs == {16, 255, 32768, 33023, 330230}

\* entries as sdl_dbg_parse_breakpoint leaves them in *out: the access bits
\* of the space, the mask of the space (Physical and Opcode take the mask
\* given), bounds within the mask and in order, enabled, not registered
CodecBps ==
    {bp \in [type : 0..3, mode : 1..7, start : CodecAddrs, end : CodecAddrs,
             mask : {255, 65535, DWORD_MAX}, disabled : {FALSE}, id : {NoIds}] :
        /\ bp.mode = ModeForType(bp.type, bp.mode)
        /\ \E given \in {65535, DWORD_MAX} :
               bp.mask = MaskForType(bp.type, TRUE, given)
        /\ BitAnd(bp.start, bp.mask) = bp.start
        /\ BitAnd(bp.end, bp.mask) = bp.end
        /\ bp.start <= bp.end}

CodecLines ==
    {"L X 8000-80FF mask=FFFF", "l x 8000-80FF mask=FFFF", "L X 8000-80FF",
     "p rw 8000 mask=FFFF", "io r 10", "op ED45-ED7D"}

NoParse == [ok |-> FALSE, err |-> "", out |-> ZeroBp]

CodecInputs ==
    [fn : {"none"}, bp : CodecBps, line : CodecLines, text : {""},
     res : {NoParse}]

InitCodec ==
    /\ calc = TRUE
    /\ paused = TRUE
    /\ z80 = [pc |-> 0, sp |-> 65535, f |-> 0, iff1 |-> TRUE, interrupts |-> 0]
    /\ NewDebugger
    /\ probe \in CodecInputs

FormatEntry ==
    /\ probe.fn = "none"
    /\ probe' = [probe EXCEPT !.fn = "format",
                              !.text = sdl_dbg_format_breakpoint(probe.bp)]
    /\ UNCHANGED <<calc, paused, core, z80, stack, step_bp, step_next_addr,
                   breakpoints, mem_logical, last_bp_type, last_bp_mode, visible,
                   resume_on_hide, bp_selected, input, freed, act, sess, stop,
                   thread>>

ParseFormatted ==
    /\ probe.fn = "none"
    /\ probe' = The({[probe EXCEPT !.fn = "reparse", !.text = t,
                                   !.res = sdl_dbg_parse_breakpoint(Cur, t)] :
                        t \in {sdl_dbg_format_breakpoint(probe.bp)}})
    /\ UNCHANGED <<calc, paused, core, z80, stack, step_bp, step_next_addr,
                   breakpoints, mem_logical, last_bp_type, last_bp_mode, visible,
                   resume_on_hide, bp_selected, input, freed, act, sess, stop,
                   thread>>

ParseLine ==
    /\ probe.fn = "none"
    /\ probe' = The({[probe EXCEPT !.fn = "parse", !.res = r,
                                   !.text = IF r.ok
                                            THEN sdl_dbg_format_breakpoint(r.out)
                                            ELSE ""] :
                        r \in {sdl_dbg_parse_breakpoint(Cur, probe.line)}})
    /\ UNCHANGED <<calc, paused, core, z80, stack, step_bp, step_next_addr,
                   breakpoints, mem_logical, last_bp_type, last_bp_mode, visible,
                   resume_on_hide, bp_selected, input, freed, act, sess, stop,
                   thread>>

NextCodec ==
    \/ FormatEntry
    \/ ParseFormatted
    \/ ParseLine

SpecCodec == InitCodec /\ [][NextCodec]_vars

(***************************************************************************)
(* The PAGE:OFFSET form of a physical address: the pages and offsets the   *)
(* conversion is applied to.                                               *)
(***************************************************************************)
\* pages of the ROM, pages past its end, the first pages of the RAM, pages
\* past its end, and pages whose shift leaves the dword
PhysPages ==
    {"0", "1", "1f", "20", "3f", "40", "41", "42", "7f", "1ffff", "20000",
     "40041", "7fffffff", "$41", "0x41", "41h", "zz"}

PhysOffsets ==
    {"0", "1", "3fff", "4000", "7fff", "ffff", "12345", "7fffffff", ""}

PhysInputs ==
    [fn : {"none"}, page : PhysPages, offset : PhysOffsets,
     res : {[ok |-> FALSE, val |-> 0]}]

InitPhys ==
    /\ calc \in BOOLEAN
    /\ paused = TRUE
    /\ z80 = [pc |-> 0, sp |-> 65535, f |-> 0, iff1 |-> TRUE, interrupts |-> 0]
    /\ NewDebugger
    /\ probe \in PhysInputs

\* sdl_dbg_parse_physical on PAGE:OFFSET
PhysPaged ==
    /\ probe.fn = "none"
    /\ probe' = [probe EXCEPT
                   !.fn = "paged",
                   !.res = sdl_dbg_parse_physical(
                              calc, probe.page \o ":" \o probe.offset)]
    /\ UNCHANGED <<calc, paused, core, z80, stack, step_bp, step_next_addr,
                   breakpoints, mem_logical, last_bp_type, last_bp_mode, visible,
                   resume_on_hide, bp_selected, input, freed, act, sess, stop,
                   thread>>

\* sdl_dbg_parse_physical on a flat address
PhysFlat ==
    /\ probe.fn = "none"
    /\ probe' = [probe EXCEPT
                   !.fn = "flat",
                   !.res = sdl_dbg_parse_physical(calc, probe.page)]
    /\ UNCHANGED <<calc, paused, core, z80, stack, step_bp, step_next_addr,
                   breakpoints, mem_logical, last_bp_type, last_bp_mode, visible,
                   resume_on_hide, bp_selected, input, freed, act, sess, stop,
                   thread>>

NextPhys ==
    \/ PhysPaged
    \/ PhysFlat

SpecPhys == InitPhys /\ [][NextPhys]_vars

(***************************************************************************)
(* The parser behind the last used type and mode: lines are parsed one     *)
(* after the other, and what a line gave is added to the store or put in   *)
(* the place of its first entry, which makes its type and mode the last    *)
(* used ones.  A line comes with the same line written with a bare         *)
(* hexadecimal address, and with the note whether it has a mode token.     *)
(***************************************************************************)
Line(text, bare, mode_token) ==
    [text |-> text, bare |-> bare, mode_token |-> mode_token]

ParseLines ==
    {Line("10", "10", FALSE), Line("l 10", "l 10", FALSE),
     Line("p 10", "p 10", FALSE), Line("io 10", "io 10", FALSE),
     Line("op c9", "op c9", FALSE), Line("l 20-30", "l 20-30", FALSE),
     Line("p 12345 mask=ff0", "p 12345 mask=ff0", FALSE),
     Line("io 1ff", "io 1ff", FALSE),
     Line("l 0x10", "l 10", FALSE), Line("l $10", "l 10", FALSE),
     Line("l 10h", "l 10", FALSE),
     Line("l rw 10", "l rw 10", TRUE), Line("io rw 10", "io rw 10", TRUE),
     Line("p w 10", "p w 10", TRUE), Line("io x 10", "io x 10", TRUE),
     Line("l x 0x10", "l x 10", TRUE), Line("l x $10", "l x 10", TRUE),
     Line("l 15-10", "l 15-10", FALSE), Line("zz", "zz", FALSE)}

NoParsed ==
    [fn |-> "none", line |-> Line("", "", FALSE),
     last_bp_type |-> SDL_DBG_BP_LOGICAL, last_bp_mode |-> SDL_DBG_BP_EXEC,
     res |-> NoParse, twin |-> NoParse]

InitParse ==
    /\ calc = TRUE
    /\ paused = TRUE
    /\ z80 = [pc |-> 0, sp |-> 65535, f |-> 0, iff1 |-> TRUE, interrupts |-> 0]
    /\ NewDebugger
    /\ probe = NoParsed

\* a line is parsed, and so is the line with the bare address
ParseText ==
    /\ \E l \in ParseLines :
          probe' = [fn |-> "parse", line |-> l,
                    last_bp_type |-> last_bp_type,
                    last_bp_mode |-> last_bp_mode,
                    res |-> sdl_dbg_parse_breakpoint(Cur, l.text),
                    twin |-> sdl_dbg_parse_breakpoint(Cur, l.bare)]
    /\ UNCHANGED <<calc, paused, core, z80, stack, step_bp, step_next_addr,
                   breakpoints, mem_logical, last_bp_type, last_bp_mode, visible,
                   resume_on_hide, bp_selected, input, freed, act, sess, stop,
                   thread>>

\* sdl_dbg_accept_input for an added breakpoint, the line having parsed
ParseAdd ==
    /\ probe.fn = "parse" /\ probe.res.ok
    /\ Len(breakpoints) < MaxToggled
    /\ Commit(sdl_dbg_apply_breakpoint(Cur, probe.res.out, 0), NoAct, "none")

\* sdl_dbg_accept_input for the first entry edited, the line having parsed
ParseEdit ==
    /\ probe.fn = "parse" /\ probe.res.ok
    /\ Len(breakpoints) >= 1
    /\ Commit(sdl_dbg_apply_breakpoint(Cur, probe.res.out, 1), NoAct, "none")

\* F2 at an address of the disassembly
ParseToggle ==
    /\ \E addr \in ToggleAddrs :
          /\ (sdl_dbg_find_exec_breakpoint(breakpoints, addr, mem_logical) = 0
                 => Len(breakpoints) < MaxToggled)
          /\ Commit(sdl_dbg_toggle_breakpoint(Cur, addr), NoAct, "none")

\* the key d of the dialog
ParseDelete ==
    /\ Len(breakpoints) >= 1
    /\ Commit(DialogDeleteKey(Cur), NoAct, "none")

NextParse ==
    \/ ParseText
    \/ ParseAdd
    \/ ParseEdit
    \/ ParseToggle
    \/ ParseDelete

SpecParse == InitParse /\ [][NextParse]_vars

(***************************************************************************)
(* Address matching on its own: a memory entry as the store can hold it,   *)
(* an address and the view are drawn in the initial state, and one action  *)
(* applies sdl_dbg_bp_matches_addr to the address and to the masked        *)
(* address.                                                                *)
(***************************************************************************)
MatchBounds == {0, 5, 16, 21, 330230}

\* memory entries as sdl_dbg_parse_breakpoint and sdl_dbg_toggle_breakpoint
\* make them (bounds within the mask and in order; a Logical entry has the
\* mask FFFF, a Physical one the mask given), enabled or disabled
MatchBps ==
    {bp \in [type : {SDL_DBG_BP_LOGICAL, SDL_DBG_BP_PHYSICAL},
             mode : {SDL_DBG_BP_EXEC, SDL_DBG_BP_READ + SDL_DBG_BP_WRITE},
             start : MatchBounds, end : MatchBounds,
             mask : {0, 15, 65535, DWORD_MAX}, disabled : BOOLEAN,
             id : {NoIds}] :
        /\ bp.mask = MaskForType(bp.type, TRUE, bp.mask)
        /\ BitAnd(bp.start, bp.mask) = bp.start
        /\ BitAnd(bp.end, bp.mask) = bp.end
        /\ bp.start <= bp.end}

MatchAddrs == {0, 5, 18, 21, 22, 65554, 330230}

MatchInputs ==
    [fn : {"none"}, bp : MatchBps, a : MatchAddrs, logical : BOOLEAN,
     ret : {FALSE}, ret_masked : {FALSE}]

InitMatch ==
    /\ calc = TRUE
    /\ paused = TRUE
    /\ z80 = [pc |-> 0, sp |-> 65535, f |-> 0, iff1 |-> TRUE, interrupts |-> 0]
    /\ NewDebugger
    /\ probe \in MatchInputs

MatchAddr ==
    /\ probe.fn = "none"
    /\ probe' = [probe EXCEPT
                    !.fn = "match",
                    !.ret = sdl_dbg_bp_matches_addr(probe.bp, probe.a,
                                                    probe.logical),
                    !.ret_masked = sdl_dbg_bp_matches_addr(
                                       probe.bp,
                                       BitAnd(probe.a, probe.bp.mask),
                                       probe.logical)]
    /\ UNCHANGED <<calc, paused, core, z80, stack, step_bp, step_next_addr,
                   breakpoints, mem_logical, last_bp_type, last_bp_mode, visible,
                   resume_on_hide, bp_selected, input, freed, act, sess, stop,
                   thread>>

NextMatch == MatchAddr

SpecMatch == InitMatch /\ [][NextMatch]_vars

(***************************************************************************)
(* The search of the store on its own: a store, an address and the view    *)
(* are drawn in the initial state, and one action applies                  *)
(* sdl_dbg_find_exec_breakpoint.  The result is the index from 1, 0 for    *)
(* the source's -1.                                                        *)
(***************************************************************************)
\* entries as the store can hold them, of the four types, enabled or disabled
FindBps ==
    {bp \in [type : {SDL_DBG_BP_LOGICAL, SDL_DBG_BP_PHYSICAL},
             mode : {SDL_DBG_BP_EXEC, SDL_DBG_BP_READ + SDL_DBG_BP_WRITE},
             start : {16, 18}, end : {18, 21},
             mask : {65535, DWORD_MAX}, disabled : BOOLEAN, id : {NoIds}] :
        /\ bp.mask = MaskForType(bp.type, FALSE, 0)
        /\ bp.end - bp.start \in {0, 5}}
    \cup [type : {SDL_DBG_BP_PORT}, mode : {SDL_DBG_BP_READ}, start : {18},
          end : {18}, mask : {255}, disabled : {FALSE}, id : {NoIds}]
    \cup [type : {SDL_DBG_BP_OPCODE}, mode : {SDL_DBG_BP_EXEC}, start : {18},
          end : {18}, mask : {DWORD_MAX}, disabled : {FALSE}, id : {NoIds}]

FindStores == UNION {[1..n -> FindBps] : n \in 0..MaxBps}

FindAddrs == {5, 18, 20, 65554}

FindInputs ==
    [fn : {"none"}, bps : FindStores, a : FindAddrs, logical : BOOLEAN,
     ret : {0}]

InitFind ==
    /\ calc = TRUE
    /\ paused = TRUE
    /\ z80 = [pc |-> 0, sp |-> 65535, f |-> 0, iff1 |-> TRUE, interrupts |-> 0]
    /\ NewDebugger
    /\ probe \in FindInputs

FindExec ==
    /\ probe.fn = "none"
    /\ probe' = [probe EXCEPT
                    !.fn = "find",
                    !.ret = sdl_dbg_find_exec_breakpoint(probe.bps, probe.a,
                                                        probe.logical)]
    /\ UNCHANGED <<calc, paused, core, z80, stack, step_bp, step_next_addr,
                   breakpoints, mem_logical, last_bp_type, last_bp_mode, visible,
                   resume_on_hide, bp_selected, input, freed, act, sess, stop,
                   thread>>

NextFind == FindExec

SpecFind == InitFind /\ [][NextFind]_vars

(***************************************************************************)
(* The lines of the disassembly view.  The disassembler belongs to the     *)
(* core: of tilem_disasm_disassemble the model keeps the address it        *)
(* returns for the next instruction, which is the address plus the length  *)
(* of the instruction there.  m.layout says how long the instructions of   *)
(* the memory are, and m.wraps whether the disassembler brings the next    *)
(* address of the logical view back into 0..FFFF.                          *)
(***************************************************************************)
LayoutLen(layout, addr) ==
    CASE layout = 0 -> InsnLen(Mem(addr))    \* the program of Mem
      [] layout = 1 -> 1
      [] layout = 2 -> 2
      [] OTHER -> (addr % 3) + 1

DisasmNext(m, addr, logical) ==
    IF logical /\ m.wraps
    THEN (addr + LayoutLen(m.layout, addr)) % 65536
    ELSE addr + LayoutLen(m.layout, addr)

sdl_dbg_disasm_next_addr(m, addr, logical) ==
    The({IF next <= addr THEN addr + 1 ELSE next :
            next \in {DisasmNext(m, addr, logical)}})

RECURSIVE sdl_dbg_address_at_line(_, _, _, _)
sdl_dbg_address_at_line(m, base, line, logical) ==
    IF line <= 0 THEN base
    ELSE sdl_dbg_disasm_next_addr(
             m, sdl_dbg_address_at_line(m, base, line - 1, logical), logical)

\* the loop of sdl_dbg_find_visible_line from line i on, cur being the
\* address of line i
RECURSIVE FindVisibleFrom(_, _, _, _, _, _)
FindVisibleFrom(m, cur, i, lines, addr, logical) ==
    IF i >= lines THEN -1
    ELSE IF cur % 65536 = addr % 65536 THEN i
    ELSE The({FindVisibleFrom(m, next, i + 1, lines, addr, logical) :
                next \in {sdl_dbg_disasm_next_addr(m, cur, logical)}})

sdl_dbg_find_visible_line(m, base, lines, addr, logical) ==
    FindVisibleFrom(m, base, 0, lines, addr, logical)

\* bases and addresses: logical ones are 16 bits wide, physical ones reach
\* into the ROM pages above FFFF
LineBases == {0, 65534, 65536, 131070}

LineAddrs == {0, 1, 2, 3, 65534, 65535, 65536, 65537, 65538, 131072}

MaxLines == 4

LineInputs ==
    {p \in [fn : {"none"}, base : LineBases, lines : 0..MaxLines,
            addr : LineAddrs, logical : BOOLEAN, layout : 1..3,
            wraps : BOOLEAN, ret : {0}] :
        p.logical => p.base < 65536 /\ p.addr < 65536}

InitLines ==
    /\ calc = TRUE
    /\ paused = TRUE
    /\ z80 = [pc |-> 0, sp |-> 65535, f |-> 0, iff1 |-> TRUE, interrupts |-> 0]
    /\ NewDebugger
    /\ probe \in LineInputs

FindVisibleLine ==
    /\ probe.fn = "none"
    /\ probe' = [probe EXCEPT
                    !.fn = "find",
                    !.ret = sdl_dbg_find_visible_line(probe, probe.base,
                                                      probe.lines, probe.addr,
                                                      probe.logical)]
    /\ UNCHANGED <<calc, paused, core, z80, stack, step_bp, step_next_addr,
                   breakpoints, mem_logical, last_bp_type, last_bp_mode, visible,
                   resume_on_hide, bp_selected, input, freed, act, sess, stop,
                   thread>>

\* a click on the last line of the view
AddressAtLine ==
    /\ probe.fn = "none"
    /\ probe.lines > 0
    /\ probe' = [probe EXCEPT
                    !.fn = "at",
                    !.ret = sdl_dbg_address_at_line(probe, probe.base,
                                                    probe.lines - 1,
                                                    probe.logical)]
    /\ UNCHANGED <<calc, paused, core, z80, stack, step_bp, step_next_addr,
                   breakpoints, mem_logical, last_bp_type, last_bp_mode, visible,
                   resume_on_hide, bp_selected, input, freed, act, sess, stop,
                   thread>>

NextLines ==
    \/ FindVisibleLine
    \/ AddressAtLine

SpecLines == InitLines /\ [][NextLines]_vars

(***************************************************************************)
(* The command thread and the emulator's lock.  A command of the debugger  *)
(* is followed from one call of tilem_calc_emulator_lock or _unlock to the *)
(* next: thread.pc is the place the command has reached, thread.held says  *)
(* whether the command thread holds the lock, and thread.access is the     *)
(* last thing the command thread did with the core's registrations or with *)
(* the CPU and the memory, and whether it held the lock then.  The worker  *)
(* executes an instruction, triggers included, with the lock held, so it   *)
(* takes its step only while the command thread does not hold the lock.    *)
(***************************************************************************)
SDL_DEBUGGER_MAX_DISASM_BACK == 6

\* the disassembly view follows the program of Mem
ProgramView == [layout |-> 0, wraps |-> TRUE]

\* the lines the disassembly view shows
ViewLines == 2

\* the view is followed up to this address
MaxView == 4

\* the loop of sdl_dbg_disasm_prev_addr from cur on
RECURSIVE PrevScan(_, _, _, _)
PrevScan(m, cur, addr, logical) ==
    IF cur >= addr THEN addr - 1
    ELSE The({IF next = addr THEN cur
              ELSE IF next <= cur THEN addr - 1
              ELSE PrevScan(m, next, addr, logical) :
                 next \in {DisasmNext(m, cur, logical)}})

sdl_dbg_disasm_prev_addr(m, addr, logical) ==
    IF addr = 0 THEN 0
    ELSE PrevScan(m, IF addr > SDL_DEBUGGER_MAX_DISASM_BACK
                     THEN addr - SDL_DEBUGGER_MAX_DISASM_BACK ELSE 0,
                  addr, logical)

\* the loops of sdl_dbg_scroll_lines over the base of the view
RECURSIVE ScrollBase(_, _, _, _)
ScrollBase(m, base, delta, logical) ==
    IF delta = 0 THEN base
    ELSE IF delta > 0
    THEN ScrollBase(m, sdl_dbg_disasm_next_addr(m, base, logical),
                    delta - 1, logical)
    ELSE ScrollBase(m, sdl_dbg_disasm_prev_addr(m, base, logical),
                    delta + 1, logical)

\* the command thread touches the core's registrations ("register",
\* "unregister") or reads the CPU or the memory ("read")
Acc(d, kind) ==
    [d EXCEPT !.thread.access = [kind |-> kind, locked |-> d.thread.held]]

Goto(d, pc) == [d EXCEPT !.thread.pc = pc]

tilem_calc_emulator_lock(d, next) ==
    [d EXCEPT !.thread.held = TRUE, !.thread.pc = next]

\* a faulty variant of tilem_calc_emulator_unlock: the lock stays held
UnlockKeeps(d, next) == [d EXCEPT !.thread.pc = next]

tilem_calc_emulator_unlock(d, next) ==
    [d EXCEPT !.thread.held = FALSE, !.thread.pc = next]

\* sdl_dbg_cancel_step_bp has returned
CancelReturns(d) ==
    [d EXCEPT !.thread.pc = d.thread.ret, !.thread.returned = "cancel"]

\* a faulty variant of CancelRemove: the handle is cleared before the
\* registration is removed
CancelRemoveCleared(d) ==
    [d EXCEPT !.core = tilem_z80_remove_breakpoint(d.core, 0)]

\* the locked section of sdl_dbg_cancel_step_bp
CancelRemove(d) ==
    [d EXCEPT !.core = tilem_z80_remove_breakpoint(d.core, d.step_bp)]

\* the breakpoint sdl_dbg_toggle_breakpoint adds at addr
ToggleBp(d, addr) ==
    LET type == IF d.mem_logical THEN SDL_DBG_BP_LOGICAL
                                 ELSE SDL_DBG_BP_PHYSICAL
        mask == IF type = SDL_DBG_BP_LOGICAL THEN 65535 ELSE DWORD_MAX
    IN  [type |-> type, mode |-> SDL_DBG_BP_EXEC,
         start |-> BitAnd(addr, mask), end |-> BitAnd(addr, mask),
         mask |-> mask, disabled |-> FALSE, id |-> NoIds]

\* the next step of the command the command thread is in
CmdMicro(d) ==
    LET t == d.thread
        pc == d.thread.pc
    IN
    CASE pc = "cancel" ->
            IF d.step_bp = 0 \/ ~d.calc THEN CancelReturns(d)
            ELSE Goto(d, "cancel_lock")
      [] pc = "cancel_lock" -> tilem_calc_emulator_lock(d, "cancel_remove")
      [] pc = "cancel_remove" ->
            Goto(Acc(CancelRemove(d), "unregister"), "cancel_unlock")
      [] pc = "cancel_unlock" -> tilem_calc_emulator_unlock(d, "cancel_clear")
      [] pc = "cancel_clear" -> CancelReturns([d EXCEPT !.step_bp = 0])
      \* sdl_dbg_step_over
      [] pc = "over_lock" -> tilem_calc_emulator_lock(d, "over_disasm")
      [] pc = "over_disasm" ->
            Goto(Acc([d EXCEPT !.step_next_addr =
                                   tilem_disasm_disassemble(z80.pc)], "read"),
                 "over_unlock")
      [] pc = "over_unlock" -> tilem_calc_emulator_unlock(d, "run")
      \* sdl_dbg_finish
      [] pc = "finish_lock" -> tilem_calc_emulator_lock(d, "finish_sp")
      [] pc = "finish_sp" ->
            Goto(Acc([d EXCEPT !.thread.data = z80.sp], "read"),
                 "finish_unlock")
      [] pc = "finish_unlock" -> tilem_calc_emulator_unlock(d, "run")
      \* sdl_dbg_run_with_step_condition
      [] pc = "run" ->
            IF ~d.calc THEN Goto(d, "idle")
            ELSE tilem_calc_emulator_lock(d, "run_add")
      [] pc = "run_add" ->
            Goto(Acc([d EXCEPT
                        !.core = tilem_z80_add_breakpoint(
                                     d.core, TILEM_BREAK_EXECUTE, 0, 0, 0,
                                     t.func, t.data, "step"),
                        !.step_bp = NewHandle(d.core),
                        !.thread.returned = "none"], "register"),
                 "run_unlock")
      [] pc = "run_unlock" -> tilem_calc_emulator_unlock(d, "run_run")
      [] pc = "run_run" -> Goto(tilem_calc_emulator_run(d), "idle")
      \* sdl_dbg_scroll_lines
      [] pc = "scroll_lock" -> tilem_calc_emulator_lock(d, "scroll_walk")
      [] pc = "scroll_walk" ->
            Goto(Acc([d EXCEPT !.thread.disasm_base =
                                   ScrollBase(ProgramView, t.disasm_base,
                                              t.delta, d.mem_logical)],
                     "read"),
                 "scroll_unlock")
      [] pc = "scroll_unlock" -> tilem_calc_emulator_unlock(d, "scroll_find")
      [] pc = "scroll_find" ->
            Goto(Acc([d EXCEPT !.thread.disasm_cursor =
                        IF sdl_dbg_find_visible_line(
                               ProgramView, t.disasm_base, ViewLines,
                               t.disasm_cursor, d.mem_logical) < 0
                        THEN t.disasm_base ELSE t.disasm_cursor],
                     "read"),
                 "idle")
      \* SDLK_UP and SDLK_DOWN of sdl_dbg_handle_key
      [] pc = "cursor_lock" -> tilem_calc_emulator_lock(d, "cursor_move")
      [] pc = "cursor_move" ->
            Goto(Acc([d EXCEPT !.thread.disasm_cursor =
                        IF t.delta < 0
                        THEN sdl_dbg_disasm_prev_addr(
                                 ProgramView, t.disasm_cursor, d.mem_logical)
                        ELSE sdl_dbg_disasm_next_addr(
                                 ProgramView, t.disasm_cursor, d.mem_logical)],
                     "read"),
                 "cursor_find")
      [] pc = "cursor_find" ->
            Goto(Acc([d EXCEPT !.thread.disasm_base =
                        IF sdl_dbg_find_visible_line(
                               ProgramView, t.disasm_base, ViewLines,
                               t.disasm_cursor, d.mem_logical) < 0
                        THEN t.disasm_cursor ELSE t.disasm_base],
                     "read"),
                 "cursor_unlock")
      [] pc = "cursor_unlock" -> tilem_calc_emulator_unlock(d, "idle")
      \* a click on a line of the disassembly (sdl_dbg_handle_mouse)
      [] pc = "click_lock" -> tilem_calc_emulator_lock(d, "click_line")
      [] pc = "click_line" ->
            Goto(Acc([d EXCEPT !.thread.data =
                        sdl_dbg_address_at_line(ProgramView, t.disasm_base,
                                                t.idx, d.mem_logical)],
                     "read"),
                 "click_unlock")
      [] pc = "click_unlock" -> tilem_calc_emulator_unlock(d, "click_cursor")
      [] pc = "click_cursor" ->
            Goto([d EXCEPT !.thread.disasm_cursor = t.data, !.thread.data = 0],
                 t.ret)
      \* sdl_dbg_toggle_breakpoint at the cursor
      [] pc = "toggle" ->
            IF ~d.calc THEN Goto(d, "idle")
            ELSE The({IF idx > 0
                      THEN [d EXCEPT !.thread.idx = idx,
                                     !.thread.bp = d.breakpoints[idx],
                                     !.thread.pc = "unset_lock"]
                      ELSE [d EXCEPT !.thread.bp = ToggleBp(d, t.disasm_cursor),
                                     !.thread.pc = "set_lock"] :
                         idx \in {sdl_dbg_find_exec_breakpoint(
                                      d.breakpoints, t.disasm_cursor,
                                      d.mem_logical)}})
      \* sdl_dbg_unset_bp of the entry found, then its removal from the store
      [] pc = "unset_lock" -> tilem_calc_emulator_lock(d, "unset_remove")
      [] pc = "unset_remove" ->
            Goto(Acc([d EXCEPT !.core = sdl_dbg_unset_bp(d.calc, d.core,
                                                         t.bp).core],
                     "unregister"),
                 "unset_unlock")
      [] pc = "unset_unlock" -> tilem_calc_emulator_unlock(d, "toggle_remove")
      [] pc = "toggle_remove" ->
            [d EXCEPT !.breakpoints = RemoveIndex(d.breakpoints, t.idx),
                      !.thread.idx = 0, !.thread.bp = ZeroBp,
                      !.thread.pc = "idle"]
      \* sdl_dbg_set_bp of the new entry, then its addition to the store
      [] pc = "set_lock" -> tilem_calc_emulator_lock(d, "set_add")
      [] pc = "set_add" ->
            The({Goto(Acc([d EXCEPT !.core = s.core, !.thread.bp = s.bp],
                          "register"),
                      "set_unlock") :
                    s \in {sdl_dbg_set_bp(d.core, t.bp)}})
      [] pc = "set_unlock" -> tilem_calc_emulator_unlock(d, "toggle_append")
      [] pc = "toggle_append" ->
            [d EXCEPT !.breakpoints = Append(d.breakpoints, t.bp),
                      !.last_bp_type = t.bp.type,
                      !.last_bp_mode = SDL_DBG_BP_EXEC,
                      !.thread.bp = ZeroBp,
                      !.thread.pc = "idle"]
      \* sdl_dbg_clear_breakpoints, entry by entry, then the cancellation
      [] pc = "clear" ->
            IF t.idx > Len(d.breakpoints)
            THEN [d EXCEPT !.breakpoints = <<>>, !.thread.idx = 0,
                           !.thread.pc = "cancel"]
            ELSE IF ~d.calc THEN [d EXCEPT !.thread.idx = t.idx + 1]
            ELSE tilem_calc_emulator_lock(d, "clear_remove")
      [] pc = "clear_remove" ->
            The({Goto(Acc([d EXCEPT !.core = u.core,
                                    !.breakpoints[t.idx] = u.bp],
                          "unregister"),
                      "clear_unlock") :
                    u \in {sdl_dbg_unset_bp(d.calc, d.core,
                                            d.breakpoints[t.idx])}})
      [] pc = "clear_unlock" ->
            [tilem_calc_emulator_unlock(d, "clear") EXCEPT
                 !.thread.idx = t.idx + 1]
      \* sdl_dbg_apply_breakpoint: t.bp is bp, t.idx the place of the entry
      \* edited (0 for an entry added); sdl_dbg_unset_bp of the old entry
      [] pc = "apply" ->
            IF t.idx >= 1 /\ t.idx <= Len(d.breakpoints)
            THEN [d EXCEPT !.thread.func = "edit",
                           !.thread.bp.disabled = d.breakpoints[t.idx].disabled,
                           !.thread.pc = IF d.calc THEN "old_lock" ELSE "new"]
            ELSE [d EXCEPT !.thread.func = "add", !.thread.pc = "new"]
      [] pc = "old_lock" -> tilem_calc_emulator_lock(d, "old_remove")
      [] pc = "old_remove" ->
            Goto(Acc([d EXCEPT !.core = sdl_dbg_unset_bp(
                                            d.calc, d.core,
                                            d.breakpoints[t.idx]).core],
                     "unregister"),
                 "old_unlock")
      [] pc = "old_unlock" -> tilem_calc_emulator_unlock(d, "new")
      \* sdl_dbg_set_bp of bp, then the entry is written or appended
      [] pc = "new" ->
            IF t.bp.disabled THEN Goto(d, "apply_store")
            ELSE tilem_calc_emulator_lock(d, "new_add")
      [] pc = "new_add" ->
            The({Goto(Acc([d EXCEPT !.core = s.core, !.thread.bp = s.bp],
                          "register"),
                      "new_unlock") :
                    s \in {sdl_dbg_set_bp(d.core, t.bp)}})
      [] pc = "new_unlock" -> tilem_calc_emulator_unlock(d, "apply_store")
      [] pc = "apply_store" ->
            IF t.func = "edit"
            THEN [d EXCEPT !.breakpoints[t.idx] = t.bp,
                           !.last_bp_type = t.bp.type,
                           !.last_bp_mode = t.bp.mode,
                           !.thread.pc = "idle"]
            ELSE [d EXCEPT !.breakpoints = Append(d.breakpoints, t.bp),
                           !.bp_selected = Len(d.breakpoints),
                           !.last_bp_type = t.bp.type,
                           !.last_bp_mode = t.bp.mode,
                           !.thread.pc = "idle"]
      \* the keys d / Delete of the dialog
      [] pc = "delete" ->
            IF d.bp_selected < Len(d.breakpoints)
            THEN [d EXCEPT !.thread.func = "delete",
                           !.thread.idx = d.bp_selected + 1,
                           !.thread.bp = d.breakpoints[d.bp_selected + 1],
                           !.thread.pc = IF d.calc THEN "delete_lock"
                                         ELSE "delete_index"]
            ELSE Goto(d, "idle")
      [] pc = "delete_lock" -> tilem_calc_emulator_lock(d, "delete_remove")
      [] pc = "delete_remove" ->
            Goto(Acc([d EXCEPT !.core = sdl_dbg_unset_bp(d.calc, d.core,
                                                         t.bp).core],
                     "unregister"),
                 "delete_unlock")
      [] pc = "delete_unlock" -> tilem_calc_emulator_unlock(d, "delete_index")
      [] pc = "delete_index" ->
            The({[d EXCEPT !.breakpoints = rest,
                           !.bp_selected =
                               IF d.bp_selected >= Len(rest)
                               THEN (IF Len(rest) - 1 < 0 THEN 0
                                     ELSE Len(rest) - 1)
                               ELSE d.bp_selected,
                           !.thread.pc = "idle"] :
                    rest \in {RemoveIndex(d.breakpoints, t.idx)}})
      \* the keys t / Space of the dialog
      [] pc = "enable" ->
            IF d.bp_selected >= Len(d.breakpoints) THEN Goto(d, "idle")
            ELSE IF d.breakpoints[d.bp_selected + 1].disabled
            THEN tilem_calc_emulator_lock(
                     [d EXCEPT !.thread.func = "enable",
                               !.thread.idx = d.bp_selected + 1,
                               !.breakpoints[d.bp_selected + 1].disabled = FALSE],
                     "enable_add")
            ELSE [d EXCEPT !.thread.func = "disable",
                           !.thread.idx = d.bp_selected + 1,
                           !.breakpoints[d.bp_selected + 1].disabled = TRUE,
                           !.thread.pc = IF d.calc THEN "disable_lock"
                                         ELSE "idle"]
      [] pc = "enable_add" ->
            The({Goto(Acc([d EXCEPT !.core = s.core,
                                    !.breakpoints[t.idx] = s.bp],
                          "register"),
                      "enable_unlock") :
                    s \in {sdl_dbg_set_bp(d.core, d.breakpoints[t.idx])}})
      [] pc = "enable_unlock" -> tilem_calc_emulator_unlock(d, "idle")
      [] pc = "disable_lock" -> tilem_calc_emulator_lock(d, "disable_remove")
      [] pc = "disable_remove" ->
            The({Goto(Acc([d EXCEPT !.core = u.core,
                                    !.breakpoints[t.idx] = u.bp],
                          "unregister"),
                      "disable_unlock") :
                    u \in {sdl_dbg_unset_bp(d.calc, d.core,
                                            d.breakpoints[t.idx])}})
      [] pc = "disable_unlock" -> tilem_calc_emulator_unlock(d, "idle")
      [] OTHER -> d

\* a command begins at place pc and goes on at place ret
Begin(d, pc, ret) ==
    [d EXCEPT !.thread.pc = pc, !.thread.ret = ret, !.thread.raced = FALSE]

\* tilem_sdl_debugger_show up to its call of sdl_dbg_cancel_step_bp
ShowBegins(d) ==
    IF ~d.calc THEN d
    ELSE Begin(tilem_calc_emulator_pause(
                   [d EXCEPT !.visible = TRUE, !.resume_on_hide = ~d.paused]),
               "cancel", "idle")

\* sdl_dbg_handle_key up to the first lock the key's command takes
KeyBegins(d, sym) ==
    IF ~sdl_dbg_is_paused(d)
    THEN IF sym = "ESCAPE" THEN tilem_calc_emulator_pause(d) ELSE d
    ELSE CASE sym = "ESCAPE" -> tilem_calc_emulator_pause(d)
           [] sym = "F5" -> tilem_calc_emulator_run(d)
           [] sym \in {"F7", "F8", "F9"} /\ ~d.calc -> d
           [] sym = "F7" ->
                Begin([d EXCEPT !.thread.func = "step", !.thread.data = 0],
                      "cancel", "run")
           [] sym = "F8" ->
                Begin([d EXCEPT !.thread.func = "step_over", !.thread.data = 0],
                      "cancel", "over_lock")
           [] sym = "F9" ->
                Begin([d EXCEPT !.thread.func = "finish"],
                      "cancel", "finish_lock")
           [] sym = "F2" -> Begin(d, "toggle", "idle")
           [] sym \in {"PAGEUP", "PAGEDOWN", "UP", "DOWN"} /\ ~d.calc -> d
           [] sym = "PAGEUP" ->
                Begin([d EXCEPT !.thread.delta = -ViewLines], "scroll_lock", "idle")
           [] sym = "PAGEDOWN" ->
                Begin([d EXCEPT !.thread.delta = ViewLines], "scroll_lock", "idle")
           [] sym = "UP" ->
                Begin([d EXCEPT !.thread.delta = -1], "cursor_lock", "idle")
           [] sym = "DOWN" ->
                Begin([d EXCEPT !.thread.delta = 1], "cursor_lock", "idle")
           [] OTHER -> d

\* sdl_dbg_handle_wheel, y being the wheel's movement
WheelBegins(d, y) ==
    IF ~d.calc \/ ~sdl_dbg_is_paused(d) \/ y = 0 THEN d
    ELSE Begin([d EXCEPT !.thread.delta = IF y > 0 THEN -1 ELSE 1],
               "scroll_lock", "idle")

\* sdl_dbg_handle_mouse for a click on a line of the disassembly
ClickBegins(d, line, button) ==
    IF ~d.calc \/ ~sdl_dbg_is_paused(d) THEN d
    ELSE Begin([d EXCEPT !.thread.idx = line], "click_lock",
               IF button = "RIGHT" THEN "toggle" ELSE "idle")

\* tilem_sdl_debugger_calc_changed up to the first entry of the store
CalcChangedBegins(d) == Begin([d EXCEPT !.thread.idx = 1], "clear", "idle")

ThreadIdle == ~freed /\ thread.pc = "idle"

\* the command d begins keeps the view within the part of the memory that is
\* followed, and the store within its bound
Bounded(d) ==
    /\ d.thread.pc = "scroll_lock" =>
           ScrollBase(ProgramView, d.thread.disasm_base, d.thread.delta,
                      d.mem_logical) <= MaxView
    /\ d.thread.pc = "cursor_lock" /\ d.thread.delta > 0 =>
           sdl_dbg_disasm_next_addr(ProgramView, d.thread.disasm_cursor,
                                    d.mem_logical) <= MaxView
    /\ "toggle" \in {d.thread.pc, d.thread.ret} =>
           \/ Len(d.breakpoints) < MaxToggled
           \/ sdl_dbg_find_exec_breakpoint(
                  d.breakpoints,
                  IF d.thread.pc = "toggle" THEN d.thread.disasm_cursor
                  ELSE sdl_dbg_address_at_line(ProgramView,
                                               d.thread.disasm_base,
                                               d.thread.idx, d.mem_logical),
                  d.mem_logical) > 0

InitThreads ==
    /\ calc = TRUE
    /\ paused = FALSE
    /\ z80 \in [pc : {0}, sp : InitSPs, f : {0}, iff1 : {TRUE}, interrupts : {0}]
    /\ NewDebugger
    /\ probe = NoProbe

ThreadShow ==
    /\ ThreadIdle /\ ~visible
    /\ Commit(ShowBegins(Cur), NoAct, "none")

ThreadHide ==
    /\ ThreadIdle /\ visible
    /\ Commit(tilem_sdl_debugger_hide(Cur), NoAct, "none")

\* the keys that run, pause and step
ThreadStepKey ==
    /\ ThreadIdle /\ visible
    /\ \E sym \in {"ESCAPE", "F5", "F7", "F8", "F9"} :
          Commit(KeyBegins(Cur, sym), NoAct, "none")

\* the keys that move the disassembly view and toggle a breakpoint
ThreadViewKey ==
    /\ ThreadIdle /\ visible
    /\ \E sym \in {"F2", "PAGEUP", "PAGEDOWN", "UP", "DOWN"} :
          /\ Bounded(KeyBegins(Cur, sym))
          /\ Commit(KeyBegins(Cur, sym), NoAct, "none")

ThreadWheel ==
    /\ ThreadIdle /\ visible
    /\ \E y \in {-1, 1} :
          /\ Bounded(WheelBegins(Cur, y))
          /\ Commit(WheelBegins(Cur, y), NoAct, "none")

ThreadClick ==
    /\ ThreadIdle /\ visible
    /\ \E line \in 0..(ViewLines - 1), button \in {"LEFT", "RIGHT"} :
          /\ Bounded(ClickBegins(Cur, line, button))
          /\ Commit(ClickBegins(Cur, line, button), NoAct, "none")

\* sdl_update_after_load: a calculator has been loaded, the emulator running
\* or not
ThreadCalcChanged ==
    /\ ThreadIdle
    /\ Commit(CalcChangedBegins(Cur), NoAct, "none")

\* the arguments and the local variables of a command are gone when it has
\* returned
Returned(d) ==
    IF d.thread.pc # "idle" THEN d
    ELSE [d EXCEPT !.thread.ret = "idle", !.thread.func = "none",
                   !.thread.data = 0, !.thread.delta = 0, !.thread.idx = 0,
                   !.thread.bp = ZeroBp]

\* the command thread goes on to the next lock, unlock or return
ThreadStep ==
    /\ ~freed /\ thread.pc # "idle"
    /\ Commit(Returned(CmdMicro(Cur)), NoAct, "none")

\* the worker executes an instruction with the lock held; thread.raced notes
\* that a trigger has changed the registrations between the test and the lock
\* of sdl_dbg_cancel_step_bp
ThreadWorker ==
    /\ ~thread.held
    /\ WorkerRun
    /\ thread' = [thread EXCEPT
                     !.raced = thread.raced
                               \/ (thread.pc = "cancel_lock" /\ core' # core)]

ThreadInterrupt ==
    /\ ~thread.held
    /\ RaiseInterrupt \/ ServiceInterrupt

\* the commands of the command thread, lock by lock, the worker standing still
NextLock ==
    \/ ThreadShow
    \/ ThreadHide
    \/ ThreadStepKey
    \/ ThreadViewKey
    \/ ThreadWheel
    \/ ThreadClick
    \/ ThreadCalcChanged
    \/ ThreadStep

SpecLock == InitThreads /\ [][NextLock]_vars

\* F2 toggles a breakpoint at the cursor
ThreadToggle ==
    /\ ThreadIdle /\ visible
    /\ Commit(KeyBegins(Cur, "F2"), NoAct, "none")

\* the commands that start and cancel a step session or toggle a breakpoint,
\* lock by lock, and the worker between any two of their steps
NextRace ==
    \/ ThreadShow
    \/ ThreadHide
    \/ ThreadStepKey
    \/ ThreadToggle
    \/ ThreadCalcChanged
    \/ ThreadStep
    \/ ThreadWorker
    \/ ThreadInterrupt

SpecRace == InitThreads /\ [][NextRace]_vars

(***************************************************************************)
(* The store behind the dialog, lock by lock.  The dialog is opened with   *)
(* the emulator paused (Ctrl+B and Debug > Breakpoints are refused         *)
(* otherwise) and stays in front of the keys and buttons that run it, so   *)
(* its commands are issued with the emulator paused.  The worker takes the *)
(* lock while the emulator runs, and the core goes through the table of    *)
(* registrations; the instructions it executes are not followed here.      *)
(***************************************************************************)
\* Return in the input line of the dialog, the line having parsed into bp:
\* sdl_dbg_accept_input for an entry added or for the selected entry edited
StoreAccept ==
    /\ ThreadIdle /\ visible /\ sdl_dbg_is_paused(Cur)
    /\ \E bp \in BpDefs, index \in {0, bp_selected + 1} :
          /\ index = 0 => Len(breakpoints) < MaxBps
          /\ index # 0 => bp_selected < Len(breakpoints)
          /\ Commit(Begin([Cur EXCEPT !.thread.bp = bp, !.thread.idx = index],
                          "apply", "idle"),
                    NoAct, "none")

\* the keys d / Delete and t / Space of the dialog
StoreKey ==
    /\ ThreadIdle /\ visible /\ sdl_dbg_is_paused(Cur)
    /\ \E pc \in {"delete", "enable"} :
          Commit(Begin(Cur, pc, "idle"), NoAct, "none")

\* the keys Up and Down of the dialog
StoreMove ==
    /\ ThreadIdle /\ visible /\ sdl_dbg_is_paused(Cur)
    /\ \/ /\ bp_selected > 0
          /\ Commit([Cur EXCEPT !.bp_selected = bp_selected - 1], NoAct, "none")
       \/ /\ bp_selected + 1 < Len(breakpoints)
          /\ Commit([Cur EXCEPT !.bp_selected = bp_selected + 1], NoAct, "none")

\* F2 at the cursor of the disassembly
StoreToggle ==
    /\ ThreadIdle /\ visible
    /\ \/ Len(breakpoints) < MaxBps
       \/ sdl_dbg_find_exec_breakpoint(breakpoints, thread.disasm_cursor,
                                       mem_logical) > 0
    /\ Commit(KeyBegins(Cur, "F2"), NoAct, "none")

\* F5 and Escape, the dialog being closed
StoreRunPause ==
    /\ ThreadIdle /\ visible
    /\ \E sym \in {"ESCAPE", "F5"} :
          Commit(KeyBegins(Cur, sym), NoAct, "none")

\* the worker takes the lock and the core goes through its registrations
WorkerLooks ==
    /\ calc /\ ~paused /\ ~freed
    /\ ~thread.held
    /\ act' = [op |-> "worker", paused0 |-> paused]
    /\ UNCHANGED <<calc, paused, core, z80, stack, step_bp, step_next_addr,
                   breakpoints, mem_logical, last_bp_type, last_bp_mode, visible,
                   resume_on_hide, bp_selected, input, freed, sess, stop, probe,
                   thread>>

NextTorn ==
    \/ ThreadShow
    \/ ThreadHide
    \/ StoreAccept
    \/ StoreKey
    \/ StoreMove
    \/ StoreToggle
    \/ StoreRunPause
    \/ ThreadCalcChanged
    \/ ThreadStep
    \/ WorkerLooks

SpecTorn == InitThreads /\ [][NextTorn]_vars

(***************************************************************************)
(* Step-over on its own: the program counter, what the disassembler does   *)
(* at it, the opcode the CPU executes first and the program counter after  *)
(* it are drawn in the initial state; one action starts the session with   *)
(* sdl_dbg_step_over, and one fires the session's trigger as the worker     *)
(* does after the first instruction.                                       *)
(***************************************************************************)
OverPcs == {16, 65535}

\* what tilem_disasm_disassemble may do with the next address: leave it
\* unwritten, or write an address below, at or above the one it is given
OverDisasm ==
    [written : {FALSE}, next : {0}]
        \cup [written : {TRUE}, next : {0, 16, 17, 19, 65536}]

\* opcodes of every class, plain and under the prefixes DD, ED and FD
OverOps ==
    {8 * k : k \in 0..7}                        \* NOP, EX AF, DJNZ, JR, JR cc
        \cup {60, 118, 62}                      \* INC A, HALT, LD A,n
        \cup {192 + 8 * k : k \in 0..7}         \* RET cc
        \cup {194 + 8 * k : k \in 0..7}         \* JP cc
        \cup {196 + 8 * k : k \in 0..7}         \* CALL cc
        \cup {199 + 8 * k : k \in 0..7}         \* RST
        \cup {195, 201, 205, 233}               \* JP, RET, CALL, JP (HL)
        \cup {56576, 56600, 56769, 56777, 56781, 56809}
                                                \* DD 00, DD 18, DD C1, DD C9, DD CD, DD E9
        \cup {60741, 60749, 60736, 60848}       \* ED 45, ED 4D, ED 40, ED B0
        \cup {64771, 64973, 64960}              \* FD 03, FD CD, FD C0

OverAfter == {17, 19, 4660}

OverInputs ==
    [fn : {"none"}, dis : OverDisasm, op : OverOps, pc : OverAfter, ret : {0}]

InitOver ==
    /\ calc = TRUE
    /\ paused = TRUE
    /\ z80 \in [pc : OverPcs, sp : {65535}, f : {0}, iff1 : {TRUE},
                 interrupts : {0}]
    /\ NewDebugger
    /\ probe \in OverInputs

\* F8 with the debugger paused
OverStart ==
    /\ probe.fn = "none"
    /\ probe' = [probe EXCEPT !.fn = "start"]
    /\ calc' = calc /\ paused' = StepOverNext(Cur, probe.dis).paused
    /\ core' = StepOverNext(Cur, probe.dis).core
    /\ step_bp' = StepOverNext(Cur, probe.dis).step_bp
    /\ step_next_addr' = StepOverNext(Cur, probe.dis).step_next_addr
    /\ UNCHANGED <<z80, stack, breakpoints, mem_logical, last_bp_type,
                   last_bp_mode, visible, resume_on_hide, bp_selected, input,
                   freed, act, sess, stop, thread>>

\* the worker has executed probe.op and the program counter is probe.pc: the
\* core calls the session's trigger
OverFire ==
    /\ probe.fn = "start"
    /\ \E r \in core : r.h = step_bp /\ r.func = "step_over"
    /\ probe' = [probe EXCEPT
                    !.fn = "fire",
                    !.ret = sdl_dbg_bptest_step_over(
                                Cur, [z80 EXCEPT !.pc = probe.pc],
                                probe.op).ret]
    /\ core' = sdl_dbg_bptest_step_over(Cur, [z80 EXCEPT !.pc = probe.pc],
                                        probe.op).d.core
    /\ step_bp' = sdl_dbg_bptest_step_over(Cur, [z80 EXCEPT !.pc = probe.pc],
                                           probe.op).d.step_bp
    /\ step_next_addr' = sdl_dbg_bptest_step_over(
                             Cur, [z80 EXCEPT !.pc = probe.pc],
                             probe.op).d.step_next_addr
    /\ UNCHANGED <<calc, paused, z80, stack, breakpoints, mem_logical,
                   last_bp_type, last_bp_mode, visible, resume_on_hide,
                   bp_selected, input, freed, act, sess, stop, thread>>

NextOver ==
    \/ OverStart
    \/ OverFire

SpecOver == InitOver /\ [][NextOver]_vars

\* C21: whenever the command thread registers or unregisters a breakpoint
\* with the core, or reads the CPU or the memory of the calculator, it holds
\* the emulator's lock.
C21_AccessesHoldTheLock ==
    thread.access.kind # "none" => thread.access.locked

(***************************************************************************)
(* Properties of the trigger tests (checked under SpecTrig).               *)
(***************************************************************************)
\* the opcode with a DD or FD prefix byte taken off
Unprefixed(op) == IF op \div 256 \in {221, 253} THEN op % 256 ELSE op

\* RET, and RETN / RETI with their mirrors (ED 01xxx101)
IsReturnForm(o) == o = 201 \/ (o \div 256 = 237 /\ (o % 256) \div 64 = 1 /\ o % 8 = 5)

\* JP (HL); JP (IX) and JP (IY) under a prefix
IsJumpIndirect(o) == o = 233

\* RET cc (11ccc000)
IsCondReturnForm(o) == o \div 64 = 3 /\ o % 8 = 0

\* HALT, alone or under a DD / FD prefix
IsHaltClass(op) == Unprefixed(op) = 118

\* C7 (as stated): the finish trigger test answers stop exactly when the live
\* stack pointer is strictly above the threshold and the opcode, a DD / FD
\* prefix ignored, is an unconditional return form or a conditional return
\* form whose condition the live flags satisfy; it answers continue otherwise.
C7_FinishStopsOnReturnFormsOnly ==
    probe.fn = "finish" =>
        LET o == Unprefixed(probe.op)
        IN  (probe.ret # 0) <=>
                /\ probe.sp > probe.exitsp
                /\ \/ IsReturnForm(o)
                   \/ IsCondReturnForm(o) /\ CondHolds(o, probe.f)

\* C7 (amended): as above, with JP (HL) / JP (IX) / JP (IY) counted among the
\* opcodes the test stops at.
C7_FinishStopsOnReturnOrIndirectJump ==
    probe.fn = "finish" =>
        LET o == Unprefixed(probe.op)
        IN  (probe.ret # 0) <=>
                /\ probe.sp > probe.exitsp
                /\ \/ IsReturnForm(o)
                   \/ IsJumpIndirect(o)
                   \/ IsCondReturnForm(o) /\ CondHolds(o, probe.f)

\* a conditional return under a prefix, its condition holding, above the threshold
C7_Witness ==
    /\ probe.fn = "finish"
    /\ probe.op = 64984 /\ probe.f = 251
    /\ probe.sp = 1 /\ probe.exitsp = 0
    /\ probe.ret # 0

\* C8: the step-into trigger test answers stop for every opcode, except that
\* for HALT (0x76, DD 76, FD 76) it answers continue while no interrupt is
\* pending with IFF1 set, and stop once one is.
C8_StepStopsUnlessHalted ==
    probe.fn = "step" =>
        ((probe.ret = 0) <=>
            /\ IsHaltClass(probe.op)
            /\ ~(probe.interrupts # 0 /\ probe.iff1))

\* HALT under a prefix with no interrupt pending: the test answers continue
C8_Witness ==
    /\ probe.fn = "step"
    /\ probe.op = 64886 /\ probe.interrupts = 0 /\ probe.iff1
    /\ probe.ret = 0

(***************************************************************************)
(* Properties of the step controller (checked under Spec).                 *)
(***************************************************************************)
\* the registrations made for a step session
StepRegs == {r \in core : r.owner = "step"}

\* the registrations made for entries of the store
StoreRegs == {r \in core : r.owner = "store"}

\* the worker has just paused the CPU on the answer of the session's trampoline
StoppedByStep == paused' /\ stop' = "step"

\* C1: the core holds at most one registration made for a step session, and
\* step_bp is its handle, after any sequence of step commands, cancellations,
\* show, calc_changed and trigger calls (step-over's relocation included).
C1_AtMostOneStepRegistration ==
    /\ Cardinality(StepRegs) <= 1
    /\ \A r \in StepRegs : r.h = step_bp

\* a step-over session has moved its trampoline, beside a registration of the store
C1_Witness ==
    /\ sess.kind = "over" /\ sess.state = "live"
    /\ \E r \in StepRegs : r.kind = "MEM_EXEC" /\ r.h = step_bp
    /\ StoreRegs # {}

\* C2: once tilem_sdl_debugger_free has run, no registration of the debugger
\* is left with the core, of the store or of a step session.
C2_FreeLeavesNoRegistration == freed => core = {}

\* C3: once a session's trigger has stopped the CPU, the session's trampoline
\* is no longer registered with the core.
C3_StopUnregistersTrampoline == sess.state = "stopped" => StepRegs = {}

\* C4: after a manual Run or Pause (Escape, F5, the menu, the toolbar) no
\* step session's trampoline is registered with the core.
C4_ManualRunPauseCancelsSession == act.op \in {"run", "pause"} => StepRegs = {}

\* C5: a step-over started at a CALL whose next instruction is at X stops only
\* on the fetch at X in the frame of the CALL, never inside the subroutine.
C5_StepOverStopsOnlyAtReturnPoint ==
    [][(/\ WorkerStep
        /\ sess.kind = "over" /\ sess.state = "live" /\ IsCall(Mem(sess.pc0))
        /\ StoppedByStep)
          => (z80'.pc = sess.pc0 + 3 /\ Depth' = sess.depth0)]_vars

\* C6: a finish session started with SP = S0 does not stop at the return of a
\* nested call (SP <= S0 after it) and stops at the return of the enclosing
\* subroutine (SP > S0 after it); it stops nowhere else.
C6_FinishStopsAtEnclosingReturn ==
    [][(WorkerStep /\ sess.kind = "finish" /\ sess.state = "live")
          => LET returned == Depth' < Depth
             IN  /\ (returned /\ Depth > sess.depth0) =>
                        (z80'.sp <= sess.sp0 /\ ~StoppedByStep)
                 /\ (returned /\ Depth = sess.depth0 /\ z80'.sp > sess.sp0) =>
                        StoppedByStep
                 /\ StoppedByStep =>
                        (returned /\ Depth = sess.depth0 /\ z80'.sp > sess.sp0)]_vars

\* finish started at the nested CALL of the subroutine has stopped in the caller
C6_Witness ==
    /\ sess.kind = "finish" /\ sess.state = "stopped"
    /\ sess.pc0 = 18 /\ sess.depth0 = 1
    /\ z80.pc = 3 /\ Depth = 0 /\ z80.sp > sess.sp0

\* C8 (lemma, under Spec): with a step-into session live, the worker stops
\* after the first instruction unless that instruction is HALT with no
\* interrupt to take.
StepIntoStopsAfterOneInstruction ==
    [][(/\ WorkerStep
        /\ sess.kind = "into" /\ sess.state = "live"
        /\ ExecHits(core, z80.pc) = {})
          => (StoppedByStep <=>
                 ~(IsHalt(Mem(z80.pc)) /\ ~(z80.interrupts # 0 /\ z80.iff1)))]_vars

\* C9: a step command given while the emulator is not paused (or with no
\* calculator) changes neither step_bp, step_next_addr, the core's
\* registrations nor the run state.
C9_StepIsNoOpUnlessPaused ==
    [][((KeyStep \/ MenuStep) /\ (~calc \/ ~paused))
          => UNCHANGED <<step_bp, step_next_addr, core, paused>>]_vars

\* a step command has been given while a session was pending and the CPU running
C9_Witness ==
    /\ act.op = "step" /\ ~act.paused0
    /\ ~paused /\ step_bp # 0 /\ sess.state = "live"

(***************************************************************************)
(* Properties of the breakpoint store (checked under SpecStore).           *)
(***************************************************************************)
\* the handles entry bp has registered
EntryHandles(bp) == {bp.id[k] : k \in 1..3} \ {0}

\* C10: when an entry leaves the store (Delete in the dialog, or the toggle on
\* its address), none of its handles stays registered and the registrations
\* of the other entries stay as they were.
C10_RemoveUnregistersEntry ==
    [][\A i \in 1..Len(breakpoints) :
          breakpoints' = RemoveIndex(breakpoints, i)
             => /\ EntryHandles(breakpoints[i]) \cap Handles(core') = {}
                /\ core' = {r \in core : r.h \notin EntryHandles(breakpoints[i])}]_vars

\* an entry has been deleted beside one whose handles are all still registered
C10_Witness ==
    /\ act.op = "delete"
    /\ Len(breakpoints) = 1
    /\ EntryHandles(breakpoints[1]) # {}
    /\ EntryHandles(breakpoints[1]) = Handles(core)

\* the definition of an entry: what the dialog shows of it, less the enabled mark
Definition(bp) ==
    [type |-> bp.type, mode |-> bp.mode, start |-> bp.start, end |-> bp.end,
     mask |-> bp.mask]

\* the entry as the input line hands it to an add
AsAdded(bp) == [bp EXCEPT !.disabled = FALSE, !.id = NoIds]

\* entry i changes its enabled mark in this step
MarkFlips(i) ==
    /\ Len(breakpoints') = Len(breakpoints)
    /\ i \in 1..Len(breakpoints)
    /\ breakpoints'[i].disabled # breakpoints[i].disabled

\* C11: when an entry is disabled, all its handles are unregistered and
\* cleared; when it is enabled again, it holds the handles and the core the
\* registrations that an add of the same definition would give; either way
\* its definition, its position and the other entries stay as they were.
C11_ToggleEnabledKeepsDefinition ==
    [][\A i \in 1..Len(breakpoints) :
          MarkFlips(i)
             => /\ Definition(breakpoints'[i]) = Definition(breakpoints[i])
                /\ \A j \in 1..Len(breakpoints) :
                      j # i => breakpoints'[j] = breakpoints[j]
                /\ breakpoints'[i].disabled
                      => /\ breakpoints'[i].id = NoIds
                         /\ core' = {r \in core :
                                        r.h \notin EntryHandles(breakpoints[i])}
                /\ ~breakpoints'[i].disabled
                      => LET a == sdl_dbg_apply_breakpoint(
                                      Cur, AsAdded(breakpoints[i]), 0)
                         IN  /\ core' = a.core
                             /\ breakpoints'[i] = a.breakpoints[Len(a.breakpoints)]
                             /\ Cardinality(core') = Cardinality(core)
                                   + Cardinality({k \in 0..2 :
                                        HasBit(breakpoints[i].mode, k)})]_vars

\* the read / write / execute entry has just been enabled again beside another
\* entry, and holds three registered handles
C11_Witness ==
    /\ act.op = "toggle"
    /\ Len(breakpoints) = 2
    /\ bp_selected = 0
    /\ ~breakpoints[1].disabled
    /\ breakpoints[1].mode = 7
    /\ Cardinality(EntryHandles(breakpoints[1])) = 3
    /\ EntryHandles(breakpoints[1]) \subseteq Handles(core)
    /\ breakpoints[2].disabled

\* the core kind an entry of the given space registers for access bit k
\* (0 execute, 1 write, 2 read)
KindOfSpaceAndBit(type, k) ==
    CASE type = SDL_DBG_BP_OPCODE -> "EXECUTE"
      [] type = SDL_DBG_BP_PORT -> <<"NONE", "PORT_WRITE", "PORT_READ">>[k + 1]
      [] OTHER -> <<"MEM_EXEC", "MEM_WRITE", "MEM_READ">>[k + 1]

\* the registration the core holds for slot k of entry bp
SlotReg(bp, k) == {r \in core : r.h = bp.id[k + 1]}

\* slot k of entry bp holds the handle of one registration of the kind of its
\* space and bit, at the entry's range and mask
SlotRegistered(bp, k) ==
    /\ bp.id[k + 1] # 0
    /\ \E r \in core :
          /\ SlotReg(bp, k) = {r}
          /\ r.kind = KindOfSpaceAndBit(bp.type, k)
          /\ r.phys = (bp.type = SDL_DBG_BP_PHYSICAL)
          /\ r.start = bp.start /\ r.end = bp.end /\ r.mask = bp.mask

\* the slots of the store, as pairs of entry index and access bit
Slots == {<<i, k>> : i \in 1..Len(breakpoints), k \in 0..2}

\* C12: a slot holds a handle only if its entry is enabled and has the slot's
\* access bit; a disabled entry holds no handle; each set access bit of an
\* enabled entry has one registration of its own, of the kind of the entry's
\* space and the bit, at the entry's start, end and mask, and the core holds
\* no other registration.
C12_HandlesFollowEnabledAccessBits ==
    /\ \A s \in Slots :
          breakpoints[s[1]].id[s[2] + 1] # 0
             => ~breakpoints[s[1]].disabled /\ HasBit(breakpoints[s[1]].mode, s[2])
    /\ \A i \in 1..Len(breakpoints) :
          breakpoints[i].disabled => breakpoints[i].id = NoIds
    /\ \A s \in Slots :
          ~breakpoints[s[1]].disabled /\ HasBit(breakpoints[s[1]].mode, s[2])
             => SlotRegistered(breakpoints[s[1]], s[2])
    /\ \A s, t \in Slots :
          /\ s # t
          /\ breakpoints[s[1]].id[s[2] + 1] # 0
          => breakpoints[s[1]].id[s[2] + 1] # breakpoints[t[1]].id[t[2] + 1]
    /\ Handles(core) = UNION {EntryHandles(breakpoints[i]) :
                                  i \in 1..Len(breakpoints)}

\* an enabled read / write / execute entry and an enabled physical execute
\* entry have just been added; the core holds four registrations
C12_Witness ==
    /\ act.op = "accept"
    /\ Len(breakpoints) = 2
    /\ breakpoints[1].type = SDL_DBG_BP_PORT /\ breakpoints[1].mode = 6
    /\ SlotRegistered(breakpoints[1], 1) /\ SlotRegistered(breakpoints[1], 2)
    /\ breakpoints[2].type = SDL_DBG_BP_PHYSICAL /\ breakpoints[2].mode = 2
    /\ SlotRegistered(breakpoints[2], 1)
    /\ Cardinality(core) = 3

\* the registrations of the core other than those of entry bp
RegsBeside(c, bp) == {r \in c : r.h \notin EntryHandles(bp)}

\* the places of the enabled execute entries of the viewed space that match a
MatchingExec(bps, a, logical) ==
    {i \in 1..Len(bps) :
        /\ ~bps[i].disabled
        /\ HasBit(bps[i].mode, 0)
        /\ bps[i].type = (IF logical THEN SDL_DBG_BP_LOGICAL
                                     ELSE SDL_DBG_BP_PHYSICAL)
        /\ BitAnd(a, bps[i].mask) >= bps[i].start
        /\ BitAnd(a, bps[i].mask) <= bps[i].end}

\* the execute breakpoints matching a, as what the dialog shows of them
MatchingDefs(bps, a, logical) ==
    {Definition(bps[i]) : i \in MatchingExec(bps, a, logical)}

\* the definition of the entry a toggle at a adds
ToggleDefinition(a, logical) ==
    [type |-> IF logical THEN SDL_DBG_BP_LOGICAL ELSE SDL_DBG_BP_PHYSICAL,
     mode |-> SDL_DBG_BP_EXEC,
     start |-> IF logical THEN a % 65536 ELSE a,
     end |-> IF logical THEN a % 65536 ELSE a,
     mask |-> IF logical THEN 65535 ELSE DWORD_MAX]

\* the store after two toggles at a, one after the other
ToggledTwice(a) ==
    sdl_dbg_toggle_breakpoint(sdl_dbg_toggle_breakpoint(Cur, a), a).breakpoints

\* C14 as stated: whatever the store holds, two toggles at the same address
\* leave the set of execute breakpoints matching the address as it was.
C14_ToggleTwiceKeepsMatches ==
    visible /\ paused
       => \A a \in ToggleAddrs :
             MatchingDefs(ToggledTwice(a), a, mem_logical)
                = MatchingDefs(breakpoints, a, mem_logical)

\* C14 (amended): two toggles at the same address leave the set of execute
\* breakpoints matching the address as it was when no entry matched it, or
\* when the one entry matching it is a single-address execute entry as the
\* toggle adds; when one entry of another shape matches, one execute
\* breakpoint matches the address afterwards too.
C14_ToggleTwiceKeepsOwnEntry ==
    visible /\ paused
       => \A a \in ToggleAddrs :
             LET m == MatchingExec(breakpoints, a, mem_logical)
                 m2 == MatchingExec(ToggledTwice(a), a, mem_logical)
             IN  /\ (\/ m = {}
                     \/ /\ Cardinality(m) = 1
                        /\ MatchingDefs(breakpoints, a, mem_logical)
                              = {ToggleDefinition(a, mem_logical)})
                       => /\ MatchingDefs(ToggledTwice(a), a, mem_logical)
                               = MatchingDefs(breakpoints, a, mem_logical)
                          /\ Cardinality(m2) = Cardinality(m)
                 /\ Cardinality(m) = 1 => Cardinality(m2) = 1

\* two toggles in a row at an address that no entry matched: no entry matches
\* it again, and the opcode entry beside is still there
C14_Witness ==
    /\ act.op = "F2" /\ act.n = 2
    /\ MatchingExec(breakpoints, act.addr, mem_logical) = {}
    /\ Len(breakpoints) = 1
    /\ breakpoints[1].type = SDL_DBG_BP_OPCODE
    /\ EntryHandles(breakpoints[1]) = Handles(core)

\* C15: a toggle at a logical address that no execute breakpoint matches
\* appends one enabled entry (Logical, Exec, start = end = the address, mask
\* FFFF) with one MEM_EXEC registration, and records Logical and Exec as the
\* last-used defaults; the next toggle at the address removes that entry and
\* its registration, and a store of that entry alone is empty again.
C15_ToggleAddsThenRemoves ==
    [][act'.op = "F2" /\ mem_logical
          => LET a == act'.addr
                 m == MatchingExec(breakpoints, a, TRUE)
                 n == Len(breakpoints)
             IN  /\ m = {}
                       => /\ \E h \in (1..(Cardinality(core) + 1)) \ Handles(core) :
                                /\ breakpoints' = Append(breakpoints,
                                       [type |-> SDL_DBG_BP_LOGICAL,
                                        mode |-> SDL_DBG_BP_EXEC,
                                        start |-> a, end |-> a, mask |-> 65535,
                                        disabled |-> FALSE, id |-> <<h, 0, 0>>])
                                /\ core' = core \cup
                                       {[h |-> h, kind |-> "MEM_EXEC",
                                         phys |-> FALSE, start |-> a, end |-> a,
                                         mask |-> 65535, func |-> "none",
                                         data |-> 0, owner |-> "store"]}
                          /\ last_bp_type' = SDL_DBG_BP_LOGICAL
                          /\ last_bp_mode' = SDL_DBG_BP_EXEC
                 /\ act.op = "F2" /\ act'.n = 2 /\ m = {n}
                       => /\ breakpoints' = SubSeq(breakpoints, 1, n - 1)
                          /\ core' = RegsBeside(core, breakpoints[n])
                          /\ n = 1 => breakpoints' = <<>> /\ core' = {}]_vars

\* two toggles in a row at a logical address have left the store empty, as it
\* was, with Logical and Exec as the last-used defaults
C15_Witness ==
    /\ act.op = "F2" /\ act.n = 2
    /\ mem_logical
    /\ breakpoints = <<>>
    /\ core = {}
    /\ last_bp_type = SDL_DBG_BP_LOGICAL
    /\ last_bp_mode = SDL_DBG_BP_EXEC

(***************************************************************************)
(* Properties of the dialog's input line (checked under SpecInput).        *)
(***************************************************************************)
\* Return is pressed in the input line in this step
AcceptStep == input.mode # "NONE" /\ act'.op = "accept"

\* C13: when the line of an edit is accepted, the entry at the edited position
\* takes the definition read from the line and keeps its enabled mark, the
\* other entries and their registrations stay, no handle of the old
\* definition stays registered, and the new definition is registered (one
\* registration per access bit) if and only if the entry is enabled.
C13_EditReplacesInPlace ==
    [][AcceptStep /\ input.mode = "BP_EDIT" /\ input'.mode = "NONE"
          => LET i == input.bp_index + 1
                 new == sdl_dbg_parse_breakpoint(Cur, input.buf).out
             IN  /\ Len(breakpoints') = Len(breakpoints)
                 /\ \A j \in 1..Len(breakpoints) :
                       j # i => breakpoints'[j] = breakpoints[j]
                 /\ Definition(breakpoints'[i]) = Definition(new)
                 /\ breakpoints'[i].disabled = breakpoints[i].disabled
                 /\ RegsBeside(core', breakpoints'[i])
                       = RegsBeside(core, breakpoints[i])
                 /\ breakpoints'[i].disabled
                       => breakpoints'[i].id = NoIds /\ core' \subseteq core
                 /\ ~breakpoints'[i].disabled
                       => \A k \in 0..2 :
                             IF HasBit(new.mode, k)
                             THEN SlotRegistered(breakpoints[i], k)'
                             ELSE breakpoints'[i].id[k + 1] = 0]_vars

\* a disabled entry has just been edited: it is still disabled and holds no
\* handle, beside an enabled entry whose handles are the core's
C13_Witness ==
    /\ act.op = "accept"
    /\ Len(breakpoints) = 2
    /\ breakpoints[2].disabled /\ breakpoints[2].id = NoIds
    /\ breakpoints[2].type = SDL_DBG_BP_OPCODE
    /\ ~breakpoints[1].disabled
    /\ EntryHandles(breakpoints[1]) # {}
    /\ EntryHandles(breakpoints[1]) = Handles(core)

\* the message each line that does not parse is answered with
ExpectedError ==
    [t \in {"", "x", "zz", "10-zz", "10 mask=zz", "15-10"} |->
        CASE t = "" -> "Empty input."
          [] t = "x" -> "Missing address."
          [] t = "zz" -> "Invalid address."
          [] t = "10-zz" -> "Invalid end address."
          [] t = "10 mask=zz" -> "Invalid mask."
          [] t = "15-10" -> "End < start."]

\* the store and what the core holds for it are as they were
StoreUnchanged ==
    UNCHANGED <<breakpoints, core, bp_selected, last_bp_type, last_bp_mode>>

\* C16: when Return is pressed on a line that does not parse, the list and the
\* core's registrations are as before, the input line stays open and shows
\* the error message.
C16_FailedParseLeavesStore ==
    [][AcceptStep
          => /\ input.buf \in DOMAIN ExpectedError
                   => /\ StoreUnchanged
                      /\ input'.mode = input.mode
                      /\ input'.error = ExpectedError[input.buf]
             /\ (input'.mode # "NONE" \/ input'.error # "")
                   => /\ StoreUnchanged
                      /\ input'.mode = input.mode
                      /\ input'.error # ""
                      /\ input'.buf = input.buf]_vars

\* an added line with its end before its start has been refused, with an
\* entry in the store and its registration in the core
C16_Witness ==
    /\ act.op = "accept"
    /\ input.mode = "BP_ADD"
    /\ input.buf = "15-10"
    /\ input.error = "End < start."
    /\ Len(breakpoints) = 1
    /\ EntryHandles(breakpoints[1]) = Handles(core)
    /\ core # {}

(***************************************************************************)
(* Properties of the text codec (checked under SpecCodec).                 *)
(***************************************************************************)
\* C17 as stated: for every entry the codec can produce, parsing its
\* formatted text succeeds and gives an entry with the same space, access,
\* start, end, mask and enabled state.
C17_ParseOfFormatIsSame ==
    probe.fn = "reparse"
       => /\ probe.res.ok
          /\ Definition(probe.res.out) = Definition(probe.bp)
          /\ probe.res.out.disabled = probe.bp.disabled

\* C18 as stated: the line "L X 8000-80FF mask=FFFF" parses to the entry
\* Logical, Exec, 8000 to 80FF, mask FFFF, which formats to "L X 8000-80FF".
C18_ExampleLineParsesAndFormats ==
    probe.fn = "parse" /\ probe.line = "L X 8000-80FF mask=FFFF"
       => /\ probe.res.ok
          /\ Definition(probe.res.out)
                = [type |-> SDL_DBG_BP_LOGICAL, mode |-> SDL_DBG_BP_EXEC,
                   start |-> 32768, end |-> 33023, mask |-> 65535]
          /\ probe.text = "L X 8000-80FF"

(***************************************************************************)
(* Properties of address matching (checked under SpecMatch).               *)
(***************************************************************************)
\* a & m for a mask m of the form 2^k - 1, or all ones
LowBits(a, m) == IF m = DWORD_MAX THEN a ELSE a % (m + 1)

\* C19: for every address and every memory entry, matching the address and
\* matching the masked address give the same answer, which is (for an
\* enabled entry of the viewed space) that the masked address lies within
\* start..end; an entry with mask 0 matches only with start = end = 0.
C19_MatchingIsMaskIdempotent ==
    probe.fn = "match"
       => LET bp == probe.bp
              applies == /\ ~bp.disabled
                         /\ bp.type = (IF probe.logical THEN SDL_DBG_BP_LOGICAL
                                                         ELSE SDL_DBG_BP_PHYSICAL)
          IN  /\ probe.ret \in BOOLEAN
              /\ probe.ret = probe.ret_masked
              /\ probe.ret = (/\ applies
                              /\ LowBits(probe.a, bp.mask) >= bp.start
                              /\ LowBits(probe.a, bp.mask) <= bp.end)
              /\ bp.mask = 0 /\ probe.ret => bp.start = 0 /\ bp.end = 0

\* a Physical entry with mask 0 has matched an address other than 0
C19_Witness ==
    /\ probe.fn = "match"
    /\ probe.ret /\ probe.ret_masked
    /\ probe.bp.mask = 0
    /\ probe.a = 330230

(***************************************************************************)
(* Properties of the lines of the disassembly view (checked under          *)
(* SpecLines).                                                             *)
(***************************************************************************)
\* C20 as stated: in the logical and in the physical view, the search
\* returns a line i below N whose address is addr whenever addr is the
\* address of one of the first N instructions from base, and returns
\* not-found in every other case.
C20_LineForAddrFindsExactly ==
    probe.fn = "find"
       => IF \E k \in 0..(probe.lines - 1) :
                 sdl_dbg_address_at_line(probe, probe.base, k, probe.logical)
                    = probe.addr
          THEN /\ probe.ret \in 0..(probe.lines - 1)
               /\ sdl_dbg_address_at_line(probe, probe.base, probe.ret,
                                          probe.logical) = probe.addr
          ELSE probe.ret = -1


(***************************************************************************)
(* Properties of the command thread and the lock (checked under SpecLock   *)
(* and SpecRace).                                                          *)
(***************************************************************************)
\* the handles the entries of the store hold
StoreHandles == {breakpoints[i].id[k] : i \in 1..Len(breakpoints), k \in 1..3}

\* C22: once sdl_dbg_cancel_step_bp has returned, and until a new session is
\* registered, the core holds no registration of a step session and the
\* handle is 0, whatever the worker did between the steps of the
\* cancellation, a relocation by the step-over trigger included; with no
\* registration left, no fetch fires a trigger of the cancelled session.
C22_CancelLeavesNoStepRegistration ==
    /\ thread.returned = "cancel" => step_bp = 0 /\ StepRegs = {}
    /\ thread.pc = "idle" =>
           {r.h : r \in StoreRegs} = {h \in StoreHandles : h # 0}

\* the cancellation has returned after the step-over trigger moved the
\* registration between its test of the handle and its lock
C22_Witness ==
    /\ thread.returned = "cancel"
    /\ thread.raced
    /\ thread.pc = "idle"
    /\ step_bp = 0 /\ StepRegs = {}

(***************************************************************************)
(* Properties of step-over (checked under SpecOver).  The classes are      *)
(* those of the Z80's instruction set, the opcode taken without a DD or FD *)
(* prefix.                                                                 *)
(***************************************************************************)
CallClass(o) == o = 205 \/ AndNot(o, 56) = 196 \/ AndNot(o, 56) = 199
ReturnClass(o) == o = 201 \/ AndNot(o, 56) = 192 \/ AndNot(o, 56) = 60741
JumpClass(o) == o \in {195, 233, 24}
BranchClass(o) == AndNot(o, 56) = 194 \/ o \in {16, 32, 40, 48, 56}

ControlClass(o) ==
    CallClass(o) \/ ReturnClass(o) \/ JumpClass(o) \/ BranchClass(o)

\* the opcodes after which the registration moves to the program counter:
\* JP, RET, JP (HL), JP cc, RET cc, RETN / RETI and their mirrors, and the
\* eight opcodes 00, 08, .., 38 (NOP, EX AF,AF', DJNZ, JR, JR cc)
MovesToPc(o) ==
    o \in {195, 201, 233}
        \cup {8 * k : k \in 0..7}
        \cup {194 + 8 * k : k \in 0..7}
        \cup {192 + 8 * k : k \in 0..7}
        \cup {60741 + 8 * k : k \in 0..7}

\* the trigger has fired and the session's registration is a breakpoint on
\* the fetch at address a, and nothing else
OverTargetIs(a) ==
    /\ Cardinality(StepRegs) = 1
    /\ \A r \in StepRegs :
          /\ r.h = step_bp
          /\ r.kind = "MEM_EXEC" /\ r.func = "none"
          /\ r.start = a /\ r.end = a /\ r.mask = 65535

\* C23 as stated: when the trigger has fired, the registration is at the
\* program counter for an opcode of the call, return, jump or branch class,
\* and at the address computed when the session started for every other one.
C23_ControlClassMovesToPc ==
    probe.fn = "fire" =>
        OverTargetIs(IF ControlClass(StripIndexPrefix(probe.op))
                     THEN Word(probe.pc) ELSE Word(step_next_addr))

\* C23: when the trigger has fired, the registration is at the program
\* counter for JP, RET, JP (HL), JP cc, RET cc, RETN / RETI and the opcodes
\* 00, 08, .., 38, plain or under DD / FD; for every other opcode, CALL,
\* CALL cc and RST included, it is at the address computed when the session
\* started.
C23_MovesToPcByTable ==
    probe.fn = "fire" =>
        OverTargetIs(IF MovesToPc(StripIndexPrefix(probe.op))
                     THEN Word(probe.pc) ELSE Word(step_next_addr))

\* the trigger has fired after a CALL under a prefix and the registration is
\* at the address after the stepped instruction, not at the subroutine
C23_Witness ==
    /\ probe.fn = "fire"
    /\ probe.op = 56781
    /\ step_next_addr = 19 /\ probe.pc = 4660
    /\ OverTargetIs(19)

\* C24 as stated: for an opcode outside the classes the trigger leaves the
\* target as computed, and answers stop when the program counter is the
\* target and continue when it is not.
C24_TestStopsAtTarget ==
    probe.fn = "fire" /\ ~ControlClass(StripIndexPrefix(probe.op)) =>
        /\ OverTargetIs(Word(step_next_addr))
        /\ probe.ret = (IF Word(probe.pc) = Word(step_next_addr) THEN 1 ELSE 0)

\* C24: for an opcode the trigger does not move to the program counter for,
\* it leaves the target as computed, replaces its registration by a
\* breakpoint on the fetch at the target and answers continue, at the target
\* too; the stop at the target is the breakpoint's.
C24_TestContinuesAndPlantsTarget ==
    probe.fn = "fire" /\ ~MovesToPc(StripIndexPrefix(probe.op)) =>
        /\ OverTargetIs(Word(step_next_addr))
        /\ probe.ret = 0
        /\ ExecHits(core, step_next_addr) = StepRegs

\* the trigger has fired with the program counter at the target
C24_Witness ==
    /\ probe.fn = "fire"
    /\ probe.op = 60
    /\ probe.pc = 17 /\ step_next_addr = 17
    /\ probe.ret = 0
    /\ OverTargetIs(17)

\* C25: when the disassembler gives no next address for the instruction at
\* the program counter, or one that is not above it, the session starts with
\* the target at the program counter plus one (as a 16-bit address).
C25_FailedDisassemblyGivesPcPlusOne ==
    probe.fn = "start" /\ (~probe.dis.written \/ probe.dis.next <= z80.pc) =>
        Word(step_next_addr) = Word(z80.pc + 1)

(***************************************************************************)
(* Properties of the search of the store (checked under SpecFind).         *)
(***************************************************************************)
\* the three conditions of the statement: the access includes Exec, the
\* entry is of the space asked for, and its masked range contains the address
ExecSpaceRange(bp, addr, logical) ==
    /\ BitAnd(bp.mode, SDL_DBG_BP_EXEC) # 0
    /\ bp.type = (IF logical THEN SDL_DBG_BP_LOGICAL ELSE SDL_DBG_BP_PHYSICAL)
    /\ BitAnd(addr, bp.mask) >= bp.start
    /\ BitAnd(addr, bp.mask) <= bp.end

\* C26 as stated: the search returns the first entry that satisfies the three
\* conditions, and no entry only when none satisfies them.
C26_FindReturnsFirstOfThree ==
    probe.fn = "find" =>
        LET sat == {i \in 1..Len(probe.bps) :
                       ExecSpaceRange(probe.bps[i], probe.a, probe.logical)}
        IN  /\ probe.ret = 0 <=> sat = {}
            /\ probe.ret # 0 =>
                   probe.ret \in sat /\ \A j \in sat : probe.ret <= j

\* C26: the search returns the first enabled entry that satisfies the three
\* conditions, and no entry only when no enabled entry satisfies them.
C26_FindReturnsFirstEnabled ==
    probe.fn = "find" =>
        LET sat == {i \in 1..Len(probe.bps) :
                       /\ ~probe.bps[i].disabled
                       /\ ExecSpaceRange(probe.bps[i], probe.a, probe.logical)}
        IN  /\ probe.ret = 0 <=> sat = {}
            /\ probe.ret # 0 =>
                   probe.ret \in sat /\ \A j \in sat : probe.ret <= j

\* the search has passed a disabled entry that satisfies the three conditions
\* and returned the enabled one after it
C26_Witness ==
    /\ probe.fn = "find"
    /\ Len(probe.bps) = 2
    /\ probe.bps[1].disabled
    /\ ExecSpaceRange(probe.bps[1], probe.a, probe.logical)
    /\ ExecSpaceRange(probe.bps[2], probe.a, probe.logical)
    /\ probe.ret = 2

(***************************************************************************)
(* Properties of the order of the store (checked under SpecOrder).         *)
(***************************************************************************)
\* the store after the step is the store before it without its entry i, the
\* others in their order
WithoutEntry(i) ==
    /\ Len(breakpoints') = Len(breakpoints) - 1
    /\ \A j \in 1..(i - 1) : breakpoints'[j] = breakpoints[j]
    /\ \A j \in i..Len(breakpoints') : breakpoints'[j] = breakpoints[j + 1]

\* the store after the step is the store before it and one more entry at the
\* end, with the definition def and handles that were not registered before
WithEntryAtEnd(def) ==
    /\ Len(breakpoints') = Len(breakpoints) + 1
    /\ \A j \in 1..Len(breakpoints) : breakpoints'[j] = breakpoints[j]
    /\ Definition(breakpoints'[Len(breakpoints')]) = def
    /\ core \subseteq core'
    /\ EntryHandles(breakpoints'[Len(breakpoints')])
          = Handles(core') \ Handles(core)
    /\ Cardinality(EntryHandles(breakpoints'[Len(breakpoints')]))
          = Cardinality({k \in 0..2 : HasBit(def.mode, k)})

\* C27: the store keeps the order of insertion and never merges entries.  An
\* added definition becomes a new last entry with registrations of its own,
\* whether or not the store holds the same or an overlapping definition; an
\* edit puts the definition in the place of the edited entry and leaves the
\* others where they are; a delete, and a toggle that finds an entry, take
\* out exactly that entry and keep the order of the others.
C27_StoreKeepsInsertionOrder ==
    [][/\ act'.op = "add" => WithEntryAtEnd(Definition(act'.bp))
       /\ act'.op = "edit" =>
              /\ Len(breakpoints') = Len(breakpoints)
              /\ \A j \in 1..Len(breakpoints) :
                    j # bp_selected + 1 => breakpoints'[j] = breakpoints[j]
              /\ Definition(breakpoints'[bp_selected + 1])
                    = Definition(act'.bp)
       /\ act'.op = "delete" /\ bp_selected < Len(breakpoints) =>
              WithoutEntry(bp_selected + 1)
       /\ act'.op = "F2" /\ calc =>
              LET hit == MatchingExec(breakpoints, act'.addr, mem_logical)
              IN  IF hit = {}
                  THEN WithEntryAtEnd(
                           [type |-> IF mem_logical THEN SDL_DBG_BP_LOGICAL
                                     ELSE SDL_DBG_BP_PHYSICAL,
                            mode |-> SDL_DBG_BP_EXEC,
                            start |-> act'.addr, end |-> act'.addr,
                            mask |-> IF mem_logical THEN 65535
                                     ELSE DWORD_MAX])
                  ELSE \E i \in hit : /\ \A j \in hit : i <= j
                                       /\ WithoutEntry(i)]_vars

\* an entry has just been added after an entry of the same definition, and
\* the two hold different handles, all registered
C27_Witness ==
    /\ act.op = "add"
    /\ Len(breakpoints) = 2
    /\ Definition(breakpoints[1]) = Definition(breakpoints[2])
    /\ EntryHandles(breakpoints[1]) # {}
    /\ EntryHandles(breakpoints[1]) \cap EntryHandles(breakpoints[2]) = {}
    /\ EntryHandles(breakpoints[1]) \cup EntryHandles(breakpoints[2])
          = Handles(core)

(***************************************************************************)
(* Properties of the parser behind the last used type and mode (checked    *)
(* under SpecParse).                                                       *)
(***************************************************************************)
\* a line has just been parsed into an entry
Parsed == probe.fn = "parse" /\ probe.res.ok

\* C28 as stated: a line without a mode token gives Exec for a Logical or a
\* Physical entry and Read for a Port entry, whatever was added, edited or
\* toggled before; an Opcode entry has Exec.
C28_NoModeTokenGivesSpaceDefault ==
    Parsed =>
        /\ probe.res.out.type = SDL_DBG_BP_OPCODE =>
               probe.res.out.mode = SDL_DBG_BP_EXEC
        /\ ~probe.line.mode_token =>
               /\ probe.res.out.type \in {SDL_DBG_BP_LOGICAL, SDL_DBG_BP_PHYSICAL}
                      => probe.res.out.mode = SDL_DBG_BP_EXEC
               /\ probe.res.out.type = SDL_DBG_BP_PORT
                      => probe.res.out.mode = SDL_DBG_BP_READ

\* the accesses an entry of the given space can have
SpaceAccess(type) ==
    IF type = SDL_DBG_BP_PORT THEN {SDL_DBG_BP_READ, SDL_DBG_BP_WRITE}
    ELSE {SDL_DBG_BP_READ, SDL_DBG_BP_WRITE, SDL_DBG_BP_EXEC}

\* C28: a line without a mode token gives the accesses of the last used mode
\* that the entry's space can have, and, when there is none, Exec for a
\* Logical or a Physical entry and Read for a Port entry; an Opcode entry has
\* Exec.
C28_NoModeTokenGivesLastUsed ==
    Parsed =>
        /\ probe.res.out.type = SDL_DBG_BP_OPCODE =>
               probe.res.out.mode = SDL_DBG_BP_EXEC
        /\ ~probe.line.mode_token /\ probe.res.out.type # SDL_DBG_BP_OPCODE =>
               LET kept == {b \in SpaceAccess(probe.res.out.type) :
                               BitAnd(probe.last_bp_mode, b) # 0}
                   got == {b \in {SDL_DBG_BP_READ, SDL_DBG_BP_WRITE,
                                  SDL_DBG_BP_EXEC} :
                              BitAnd(probe.res.out.mode, b) # 0}
               IN  IF kept # {} THEN got = kept
                   ELSE IF probe.res.out.type = SDL_DBG_BP_PORT
                   THEN got = {SDL_DBG_BP_READ}
                   ELSE got = {SDL_DBG_BP_EXEC}

\* a line with an address alone has been parsed after a read-write entry was
\* added, and the entry it gives is read-write
C28_Witness ==
    /\ Parsed
    /\ probe.line.text = "10"
    /\ probe.last_bp_mode = SDL_DBG_BP_READ + SDL_DBG_BP_WRITE
    /\ probe.res.out.type = SDL_DBG_BP_LOGICAL
    /\ probe.res.out.mode = SDL_DBG_BP_READ + SDL_DBG_BP_WRITE

\* the bounds are in order and within the mask, and the access is one the
\* space can have
WellFormedBp(bp) ==
    /\ bp.start <= bp.end
    /\ BitAnd(bp.start, bp.mask) = bp.start
    /\ BitAnd(bp.end, bp.mask) = bp.end
    /\ bp.type = SDL_DBG_BP_OPCODE => bp.mode = SDL_DBG_BP_EXEC
    /\ bp.type = SDL_DBG_BP_PORT =>
           bp.mode \in {SDL_DBG_BP_READ, SDL_DBG_BP_WRITE,
                        SDL_DBG_BP_READ + SDL_DBG_BP_WRITE}
    /\ bp.type \in {SDL_DBG_BP_LOGICAL, SDL_DBG_BP_PHYSICAL} =>
           bp.mode \in 1..7

\* C29: the entry a line is parsed into, and every entry of the store after
\* any adds, edits and toggles, has its bounds in order and within its mask,
\* exactly Exec if it is an Opcode entry, Read, Write or both if it is a Port
\* entry, and at least one access if it is a Logical or Physical entry.
C29_EntriesAreWellFormed ==
    /\ Parsed => WellFormedBp(probe.res.out)
    /\ \A i \in 1..Len(breakpoints) : WellFormedBp(breakpoints[i])

\* the store holds an entry whose bounds the parser has brought within the
\* mask given
C29_Witness ==
    /\ Len(breakpoints) = 1
    /\ breakpoints[1].type = SDL_DBG_BP_PHYSICAL
    /\ breakpoints[1].mask = 4080
    /\ breakpoints[1].start = 832 /\ breakpoints[1].end = 832
    /\ probe.line.text = "p 12345 mask=ff0"

\* C30: a line whose address has the prefix 0x or $ or the suffix h parses as
\* the line with the bare address does: both parse or both fail, and into
\* the same entry.
C30_PrefixedAddressParsesAsBare ==
    probe.fn = "parse" =>
        /\ probe.res.ok = probe.twin.ok
        /\ probe.res.ok => probe.res.out = probe.twin.out

(***************************************************************************)
(* The PAGE:OFFSET conversion (checked under SpecPhys).                    *)
(***************************************************************************)
\* PAGE:OFFSET has been converted
Paged == probe.fn = "paged" /\ probe.res.ok

PhysPage == sdl_dbg_parse_num(probe.page).val
PhysOffset14 == sdl_dbg_parse_num(probe.offset).val % 16384

\* (page * 2^14 + offset) modulo m, with no loss of the high bits
PagedMod(page, offset, m) == (DoubleMod(page % m, 14, m) + offset) % m

\* C31: the offset is masked to 14 bits; a page at or above the RAM page
\* threshold gives romsize + (((page - threshold) << 14) + offset) mod ramsize,
\* a page below it ((page << 14) + offset) mod romsize; so the result is
\* below romsize + ramsize, in [0, romsize) for a ROM page and in
\* [romsize, romsize + ramsize) for a RAM page.
C31_PageOffsetWrapsInItsSpace ==
    Paged =>
        /\ probe.res.val < Hw.romsize + Hw.ramsize
        /\ IF PhysPage >= Hw.rampagemask
           THEN /\ probe.res.val =
                     Hw.romsize + PagedMod(PhysPage - Hw.rampagemask,
                                           PhysOffset14, Hw.ramsize)
                /\ probe.res.val >= Hw.romsize
           ELSE /\ probe.res.val = PagedMod(PhysPage, PhysOffset14, Hw.romsize)
                /\ probe.res.val >= 0
                /\ probe.res.val < Hw.romsize

\* a RAM page past the end of the RAM, with an offset of more than 14 bits,
\* has wrapped to the start of the RAM
C31_Witness ==
    /\ Paged
    /\ probe.page = "42" /\ probe.offset = "4000"
    /\ probe.res.val = Hw.romsize

(***************************************************************************)
(* The address before an address of the disassembly: the layouts and       *)
(* addresses sdl_dbg_disasm_prev_addr is applied to.                       *)
(***************************************************************************)
PrevAddrs == 0..20 \cup {65534, 65535}

PrevInputs ==
    [fn : {"none"}, layout : 0..3, wraps : BOOLEAN, addr : PrevAddrs,
     logical : BOOLEAN, ret : {0}]

InitPrev ==
    /\ calc = TRUE
    /\ paused = TRUE
    /\ z80 = [pc |-> 0, sp |-> 65535, f |-> 0, iff1 |-> TRUE, interrupts |-> 0]
    /\ NewDebugger
    /\ probe \in PrevInputs

PrevAddr ==
    /\ probe.fn = "none"
    /\ probe' = [probe EXCEPT
                    !.fn = "prev",
                    !.ret = sdl_dbg_disasm_prev_addr(probe, probe.addr,
                                                     probe.logical)]
    /\ UNCHANGED <<calc, paused, core, z80, stack, step_bp, step_next_addr,
                   breakpoints, mem_logical, last_bp_type, last_bp_mode, visible,
                   resume_on_hide, bp_selected, input, freed, act, sess, stop,
                   thread>>

\* the address after an address, for the scroll down of the view
NextAddr ==
    /\ probe.fn = "none"
    /\ probe' = [probe EXCEPT
                    !.fn = "next",
                    !.ret = sdl_dbg_disasm_next_addr(probe, probe.addr,
                                                     probe.logical)]
    /\ UNCHANGED <<calc, paused, core, z80, stack, step_bp, step_next_addr,
                   breakpoints, mem_logical, last_bp_type, last_bp_mode, visible,
                   resume_on_hide, bp_selected, input, freed, act, sess, stop,
                   thread>>

NextPrev ==
    \/ PrevAddr
    \/ NextAddr

SpecPrev == InitPrev /\ [][NextPrev]_vars

\* the starts of the lookback window of addr
PrevWindow(addr) ==
    {p \in 0..(addr - 1) : p + SDL_DEBUGGER_MAX_DISASM_BACK >= addr}

\* the starts of the window whose instruction ends exactly at addr
LandingStarts(m, addr, logical) ==
    {p \in PrevWindow(addr) : DisasmNext(m, p, logical) = addr}

\* C32: for addr > 0, prev_addr(addr) is a start of the window addr - 6 ..
\* addr - 1 whose instruction ends exactly at addr whenever the window has
\* such a start, and addr - 1 only when it has none.
C32_PrevAddrLandsWheneverAStartDoes ==
    probe.fn = "prev" /\ probe.addr > 0 =>
        IF LandingStarts(probe, probe.addr, probe.logical) # {}
        THEN probe.ret \in LandingStarts(probe, probe.addr, probe.logical)
        ELSE probe.ret = probe.addr - 1

(***************************************************************************)
(* Properties of the store's commands, lock by lock (checked under         *)
(* SpecTorn).                                                              *)
(***************************************************************************)
\* what a registration is made of
RegContent(r) ==
    [kind |-> r.kind, phys |-> r.phys, start |-> r.start, end |-> r.end,
     mask |-> r.mask]

\* the registrations of entry bp when it is enabled
EntryRegs(bp) ==
    IF bp.disabled THEN {}
    ELSE {[kind |-> sdl_dbg_get_core_bp_type(bp.type, Pow2(i)).kind,
           phys |-> sdl_dbg_get_core_bp_type(bp.type, Pow2(i)).phys,
           start |-> bp.start, end |-> bp.end, mask |-> bp.mask] :
             i \in {k \in 0..2 :
                       /\ HasBit(bp.mode, k)
                       /\ sdl_dbg_get_core_bp_type(bp.type, Pow2(k))
                              # NoCoreType}}

\* the command thread is within an update of one entry: the kind of update
UpdateKind ==
    CASE thread.pc = "idle" -> "none"
      [] thread.func \in {"add", "edit", "delete", "enable", "disable"} ->
            thread.func
      [] thread.pc \in {"set_lock", "set_add", "set_unlock", "toggle_append"} ->
            "add"
      [] thread.pc \in {"unset_lock", "unset_remove", "unset_unlock",
                        "toggle_remove"} -> "delete"
      [] OTHER -> "none"

\* the registrations the core holds that belong to no other entry than the
\* one being updated
UpdatedRegs ==
    {RegContent(r) :
        r \in {x \in StoreRegs :
                  \A j \in 1..Len(breakpoints) :
                     j # thread.idx => x.h \notin EntryHandles(breakpoints[j])}}

\* the registrations of the entry before the update and after it
RegsBefore ==
    CASE UpdateKind = "edit" -> EntryRegs(breakpoints[thread.idx])
      [] UpdateKind = "delete" -> EntryRegs(thread.bp)
      [] UpdateKind = "disable" ->
            EntryRegs([breakpoints[thread.idx] EXCEPT !.disabled = FALSE])
      [] OTHER -> {}

RegsAfter ==
    CASE UpdateKind \in {"add", "edit"} -> EntryRegs(thread.bp)
      [] UpdateKind = "enable" -> EntryRegs(breakpoints[thread.idx])
      [] OTHER -> {}

\* the lock is free within an update of one entry
FreeWithinUpdate == ~thread.held /\ UpdateKind # "none"

AfterLock ==
    {"cancel_remove", "over_disasm", "finish_sp", "run_add", "scroll_walk",
     "cursor_move", "click_line", "unset_remove", "set_add", "clear_remove",
     "old_remove", "new_add", "delete_remove", "enable_add", "disable_remove"}

\* the command thread has called tilem_calc_emulator_lock in this step
LockCalled == thread'.pc \in AfterLock /\ thread'.pc # thread.pc

\* the worker has executed an instruction, the trigger tests of the
\* breakpoints it has hit included
WorkerExecuted == z80' # z80

\* C34: no thread takes the lock while it holds it.  The command thread
\* calls tilem_calc_emulator_lock only with the lock released, holds it when
\* the call has returned, and has released it when its command has returned;
\* the worker's instruction, with the trigger tests of step, step-over (its
\* relocation included) and finish, leaves the lock as it is, the command
\* thread not holding it.
C34_LockNeverTakenWhileHeld ==
    [][/\ LockCalled => ~thread.held /\ thread'.held
       /\ thread'.pc = "idle" => ~thread'.held
       /\ WorkerExecuted => ~thread.held /\ thread'.held = thread.held]_vars

\* sdl_dbg_cancel_step_bp holds the lock it has called for, a trigger of the
\* worker having changed the registrations just before the call
C34_Witness ==
    /\ thread.pc = "cancel_remove" /\ thread.held
    /\ thread.raced

(***************************************************************************)
(* Properties of the store and the core's registrations (checked under     *)
(* SpecStore).                                                             *)
(***************************************************************************)
\* the handle slots of the store: entry i, access bit k - 1
StoreSlots == {<<i, k>> : i \in 1..Len(breakpoints), k \in 1..3}

SlotHandle(s) == breakpoints[s[1]].id[s[2]]

\* C35: whatever toggles, additions, edits, deletions, enablings, disablings
\* and clearings have been made, the registrations the core holds for the
\* store are those of the non-zero handles in the entries' slots: none is
\* registered without its handle being in a slot, no slot holds a handle
\* that is not registered, and no handle is in two slots.
C35_RegistryMatchesStore ==
    /\ Handles(StoreRegs) = {SlotHandle(s) : s \in StoreSlots} \ {0}
    /\ Cardinality(StoreRegs) = Cardinality(Handles(StoreRegs))
    /\ \A s1 \in StoreSlots, s2 \in StoreSlots :
           s1 # s2 /\ SlotHandle(s1) # 0 => SlotHandle(s1) # SlotHandle(s2)

\* t / Space has been pressed, and the store holds a disabled entry and an
\* entry with a handle in each of its three slots, a lower handle being free
C35_Witness ==
    /\ \E i \in 1..Len(breakpoints), j \in 1..Len(breakpoints) :
           /\ breakpoints[i].disabled
           /\ Cardinality(EntryHandles(breakpoints[j])) = 3
           /\ Handles(StoreRegs) # 1..Cardinality(StoreRegs)
    /\ act.op = "toggle"

(***************************************************************************)
(* Properties of tilem_sdl_debugger_calc_changed, followed lock by lock    *)
(* with the worker between its steps (checked under SpecRace).             *)
(***************************************************************************)
\* the places of sdl_dbg_cancel_step_bp
CancelPcs ==
    {"cancel", "cancel_lock", "cancel_remove", "cancel_unlock", "cancel_clear"}

\* sdl_dbg_clear_breakpoints returns in this step: calc_changed goes on to
\* sdl_dbg_cancel_step_bp
ClearReturns == thread.pc = "clear" /\ thread'.pc = "cancel"

\* sdl_dbg_cancel_step_bp returns in this step
CancelReturnsNow == thread.pc \in CancelPcs /\ thread'.pc \notin CancelPcs

\* C36: after calc_changed with a calculator attached the list is empty, no
\* handle an entry held is registered, and no trampoline of a step session
\* is registered, step_bp being 0: sdl_dbg_clear_breakpoints returns with
\* the store empty and none of its registrations left, nothing is added to
\* the store while sdl_dbg_cancel_step_bp runs, and sdl_dbg_cancel_step_bp
\* returns with step_bp = 0 and no registration of a session, whatever the
\* worker did in between.
C36_CalcChangedLeavesNothingRegistered ==
    [][/\ ClearReturns => breakpoints' = <<>> /\ StoreRegs' = {}
       /\ thread.pc \in CancelPcs =>
              breakpoints' = breakpoints /\ StoreRegs' = StoreRegs
       /\ CancelReturnsNow => step_bp' = 0 /\ StepRegs' = {}
       /\ CancelReturnsNow /\ breakpoints = <<>> /\ StoreRegs = {} =>
              core' = {}]_vars

\* calc_changed, called with the debugger hidden and the emulator running a
\* step-over session, has emptied the store and is about to clear step_bp,
\* the trigger having moved the registration before the lock was taken
C36_Witness ==
    /\ thread.pc = "cancel_clear" /\ ~visible
    /\ thread.raced
    /\ breakpoints = <<>> /\ core = {}
    /\ step_bp # 0

(***************************************************************************)
(* The comparison of finish (checked under SpecTrig).                      *)
(***************************************************************************)
\* C37: the trigger of finish compares the 16-bit stack pointer with the
\* threshold as unsigned numbers, with nothing done about wrap-around: it
\* answers 0 whenever the stack pointer is at or below the threshold, a
\* pointer that a return has taken past 0xFFFF to a small value included,
\* and so it answers 0 always when the threshold is 0xFFFF.
C37_FinishComparesUnsignedWithoutWrap ==
    probe.fn = "finish" =>
        /\ probe.sp <= probe.exitsp => probe.ret = 0
        /\ probe.exitsp = 65535 => probe.ret = 0

\* RET evaluated with the threshold 0xFFFF and the stack pointer at 1, two
\* above 0xFFFF on the 16-bit circle: the trigger has answered 0
C37_Witness ==
    /\ probe.fn = "finish"
    /\ probe.op = 201
    /\ probe.exitsp = 65535 /\ probe.sp = 1
    /\ probe.ret = 0

(***************************************************************************)
(* The modes of the debugger window: the menu, the input line and the      *)
(* breakpoints dialog.  In SpecModal the record probe holds the two flags  *)
(* of the window the other specifications do not follow, menu_open and     *)
(* show_breakpoints; a window state m is the debugger d with the two flags *)
(* and the command the handler has called.  An event ev is a key (sym), a  *)
(* mouse button (button, target: the bar of the open menu, another bar, an *)
(* item of the open menu, a button of the toolbar, a line of the           *)
(* disassembly, elsewhere) or the wheel; action is the action of the menu  *)
(* item selected or of the toolbar button hit, addr the address at the     *)
(* cursor or on the line hit, ok whether the line of a goto parses.  The   *)
(* view itself is not followed.                                            *)
(***************************************************************************)
MenuActions ==
    {"RUN", "PAUSE", "STEP", "STEP_OVER", "FINISH", "BREAKPOINTS",
     "GO_ADDRESS", "CLOSE"}

ModalCur ==
    [d |-> Cur, menu_open |-> probe.menu_open,
     show_breakpoints |-> probe.show_breakpoints, call |-> "none"]

\* the handler has called the command named, which leaves the debugger as d
Calls(m, d, name) == [m EXCEPT !.d = d, !.call = name]

sdl_dbg_menu_close(m) == [m EXCEPT !.menu_open = FALSE]

sdl_dbg_menu_open(m) == [m EXCEPT !.menu_open = TRUE]

\* sdl_dbg_start_input has left the debugger as d: the menu is closed
StartInputModal(m, d) == sdl_dbg_menu_close([m EXCEPT !.d = d])

sdl_dbg_start_goto(m) ==
    StartInputModal(m, sdl_dbg_start_input(
                           m.d, "GOTO",
                           FormatHex(IF m.d.mem_logical THEN 4 ELSE 6,
                                     m.d.thread.disasm_cursor)))

sdl_dbg_toggle_breakpoints_dialog(m) ==
    LET shown == ~m.show_breakpoints
        c == IF ~shown THEN sdl_dbg_cancel_input(m.d)
             ELSE [m.d EXCEPT !.input.error = ""]
        sel == IF c.bp_selected >= Len(c.breakpoints)
               THEN Len(c.breakpoints) - 1 ELSE c.bp_selected
    IN  [sdl_dbg_menu_close(m) EXCEPT
             !.show_breakpoints = shown,
             !.d = [c EXCEPT !.bp_selected = IF sel < 0 THEN 0 ELSE sel]]

\* tilem_sdl_debugger_hide with the flags of the window
HideModal(m) ==
    [sdl_dbg_menu_close(m) EXCEPT !.d = tilem_sdl_debugger_hide(m.d),
                                  !.show_breakpoints = FALSE,
                                  !.call = "hide"]

\* sdl_dbg_handle_menu_action with the actions that change the window's mode
MenuActionModal(m, action) ==
    CASE action = "BREAKPOINTS" -> sdl_dbg_toggle_breakpoints_dialog(m)
      [] action = "GO_ADDRESS" -> sdl_dbg_start_goto(m)
      [] action = "CLOSE" -> HideModal(m)
      [] OTHER -> Calls(m, sdl_dbg_handle_menu_action(m.d, action), action)

sdl_dbg_menu_handle_key(m, ev) ==
    CASE ev.sym = "ESCAPE" -> sdl_dbg_menu_close(m)
      [] ev.sym \in {"LEFT", "RIGHT"} -> sdl_dbg_menu_open(m)
      [] ev.sym = "RETURN" ->
            IF sdl_dbg_menu_action_enabled(m.d, ev.action)
            THEN MenuActionModal(sdl_dbg_menu_close(m), ev.action)
            ELSE m
      [] OTHER -> m

\* sdl_dbg_accept_input, the line of a goto parsing or not
AcceptInputModal(d, ok) ==
    IF d.input.mode = "GOTO"
    THEN IF ok THEN sdl_dbg_cancel_input(d)
         ELSE [d EXCEPT !.input.error = "Invalid address."]
    ELSE sdl_dbg_accept_input(d)

\* the command a key of the main view calls
KeyCall(sym) ==
    CASE sym = "ESCAPE" -> "PAUSE"
      [] sym = "F5" -> "RUN"
      [] sym = "F7" -> "STEP"
      [] sym = "F8" -> "STEP_OVER"
      [] sym = "F9" -> "FINISH"
      [] OTHER -> "none"

\* sdl_dbg_handle_key, whatever is open
HandleKeyModal(m, ev) ==
    IF m.menu_open THEN sdl_dbg_menu_handle_key(m, ev)
    ELSE IF m.d.input.mode # "NONE"
    THEN CASE ev.sym = "ESCAPE" -> [m EXCEPT !.d = sdl_dbg_cancel_input(m.d)]
           [] ev.sym = "RETURN" ->
                 [m EXCEPT !.d = AcceptInputModal(m.d, ev.ok)]
           [] ev.sym = "BACKSPACE" -> [m EXCEPT !.d = InputBackspace(m.d)]
           [] OTHER -> m
    ELSE IF m.show_breakpoints
    THEN CASE ev.sym = "ESCAPE" -> sdl_dbg_toggle_breakpoints_dialog(m)
           [] ev.sym = "UP" ->
                 IF m.d.bp_selected > 0
                 THEN [m EXCEPT !.d.bp_selected = m.d.bp_selected - 1]
                 ELSE m
           [] ev.sym = "DOWN" ->
                 IF m.d.bp_selected + 1 < Len(m.d.breakpoints)
                 THEN [m EXCEPT !.d.bp_selected = m.d.bp_selected + 1]
                 ELSE m
           [] ev.sym = "a" -> StartInputModal(m, DialogAddKey(m.d, ev.addr))
           [] ev.sym = "e" ->
                 IF m.d.bp_selected < Len(m.d.breakpoints)
                 THEN StartInputModal(m, DialogEditKey(m.d))
                 ELSE m
           [] ev.sym = "d" -> [m EXCEPT !.d = DialogDeleteKey(m.d)]
           [] ev.sym = "t" -> [m EXCEPT !.d = DialogToggleKey(m.d)]
           [] OTHER -> m
    ELSE IF ~sdl_dbg_is_paused(m.d)
    THEN IF ev.sym = "ESCAPE"
         THEN Calls(m, tilem_calc_emulator_pause(m.d), "PAUSE")
         ELSE m
    ELSE CASE ev.sym = "CTRL_B" -> sdl_dbg_toggle_breakpoints_dialog(m)
           [] ev.sym = "CTRL_L" -> sdl_dbg_start_goto(m)
           [] ev.sym \in {"ESCAPE", "F5", "F7", "F8", "F9"} ->
                 Calls(m, sdl_dbg_handle_key(m.d, ev.sym), KeyCall(ev.sym))
           [] ev.sym = "F2" ->
                 Calls(m, sdl_dbg_toggle_breakpoint(m.d, ev.addr), "TOGGLE")
           [] OTHER -> m

\* a faulty variant of sdl_dbg_handle_menu_mouse: the menus answer while the
\* input line or the dialog is shown
HandleMenuMouseUnguarded(m, ev) ==
    IF ev.button # "LEFT" THEN [m |-> m, handled |-> FALSE]
    ELSE IF ev.target = "bar_open"
    THEN [m |-> IF m.menu_open THEN sdl_dbg_menu_close(m)
                ELSE sdl_dbg_menu_open(m),
          handled |-> TRUE]
    ELSE IF ev.target = "bar"
    THEN [m |-> sdl_dbg_menu_open(m), handled |-> TRUE]
    ELSE IF ~m.menu_open THEN [m |-> m, handled |-> FALSE]
    ELSE IF ev.target = "item"
    THEN [m |-> IF sdl_dbg_menu_action_enabled(m.d, ev.action)
                THEN MenuActionModal(sdl_dbg_menu_close(m), ev.action)
                ELSE m,
          handled |-> TRUE]
    ELSE [m |-> sdl_dbg_menu_close(m), handled |-> TRUE]

\* sdl_dbg_handle_menu_mouse for a button pressed; handled is what it returns
sdl_dbg_handle_menu_mouse(m, ev) ==
    IF m.d.input.mode # "NONE" \/ m.show_breakpoints
    THEN [m |-> m, handled |-> FALSE]
    ELSE IF ev.button # "LEFT" THEN [m |-> m, handled |-> FALSE]
    ELSE IF ev.target = "bar_open"
    THEN [m |-> IF m.menu_open THEN sdl_dbg_menu_close(m)
                ELSE sdl_dbg_menu_open(m),
          handled |-> TRUE]
    ELSE IF ev.target = "bar"
    THEN [m |-> sdl_dbg_menu_open(m), handled |-> TRUE]
    ELSE IF ~m.menu_open THEN [m |-> m, handled |-> FALSE]
    ELSE IF ev.target = "item"
    THEN [m |-> IF sdl_dbg_menu_action_enabled(m.d, ev.action)
                THEN MenuActionModal(sdl_dbg_menu_close(m), ev.action)
                ELSE m,
          handled |-> TRUE]
    ELSE [m |-> sdl_dbg_menu_close(m), handled |-> TRUE]

sdl_dbg_handle_mouse(m, ev) ==
    IF m.show_breakpoints \/ m.d.input.mode # "NONE" \/ m.menu_open THEN m
    ELSE IF ~m.d.calc THEN m
    ELSE IF ev.button = "LEFT" /\ ev.target = "toolbar"
    THEN IF sdl_dbg_menu_action_enabled(m.d, ev.action)
         THEN MenuActionModal(m, ev.action)
         ELSE m
    ELSE IF ~sdl_dbg_is_paused(m.d) THEN m
    ELSE IF ev.target # "disasm" THEN m
    ELSE IF ev.button = "RIGHT"
    THEN Calls(m, sdl_dbg_toggle_breakpoint(m.d, ev.addr), "TOGGLE")
    ELSE m

sdl_dbg_handle_wheel(m, ev) ==
    IF m.show_breakpoints \/ m.d.input.mode # "NONE" \/ m.menu_open THEN m
    ELSE IF ~m.d.calc \/ ~sdl_dbg_is_paused(m.d) THEN m
    ELSE Calls(m, m.d, "SCROLL")

\* tilem_sdl_debugger_handle_event for a key, a mouse button and the wheel
HandleEventModal(m, ev) ==
    CASE ev.kind = "key" -> HandleKeyModal(m, ev)
      [] ev.kind = "mouse" ->
            The({IF r.handled THEN r.m ELSE sdl_dbg_handle_mouse(r.m, ev) :
                    r \in {sdl_dbg_handle_menu_mouse(m, ev)}})
      [] OTHER -> sdl_dbg_handle_wheel(m, ev)

NoEvent ==
    [kind |-> "none", sym |-> "none", button |-> "none", target |-> "none",
     action |-> "none", addr |-> 0, ok |-> FALSE]

ModalKeys ==
    {"ESCAPE", "RETURN", "UP", "DOWN", "LEFT", "a", "e", "d", "t",
     "CTRL_B", "CTRL_L", "F2", "F5", "F7", "F8", "F9"}

ModalEvents ==
    {[NoEvent EXCEPT !.kind = "key", !.sym = sym, !.addr = addr] :
        sym \in ModalKeys \ {"RETURN"}, addr \in ToggleAddrs}
    \cup {[NoEvent EXCEPT !.kind = "key", !.sym = "RETURN", !.action = action,
                          !.ok = ok] :
             action \in MenuActions, ok \in BOOLEAN}
    \cup {[NoEvent EXCEPT !.kind = "mouse", !.button = "LEFT",
                          !.target = target, !.action = action] :
             target \in {"item", "toolbar"}, action \in MenuActions}
    \cup {[NoEvent EXCEPT !.kind = "mouse", !.button = button,
                          !.target = target, !.addr = addr] :
             button \in {"LEFT", "RIGHT"},
             target \in {"bar_open", "bar", "disasm", "elsewhere"},
             addr \in ToggleAddrs}
    \cup {[NoEvent EXCEPT !.kind = "wheel"]}

\* the input line is active or the breakpoints dialog is shown
ModalShown == input.mode # "NONE" \/ probe.show_breakpoints

CommitModal(m, a) ==
    /\ calc' = m.d.calc
    /\ paused' = m.d.paused
    /\ core' = m.d.core
    /\ step_bp' = m.d.step_bp
    /\ step_next_addr' = m.d.step_next_addr
    /\ breakpoints' = m.d.breakpoints
    /\ mem_logical' = m.d.mem_logical
    /\ last_bp_type' = m.d.last_bp_type
    /\ last_bp_mode' = m.d.last_bp_mode
    /\ visible' = m.d.visible
    /\ resume_on_hide' = m.d.resume_on_hide
    /\ bp_selected' = m.d.bp_selected
    /\ input' = m.d.input
    /\ thread' = m.d.thread
    /\ act' = a
    /\ stop' = StopAfter(m.d)
    /\ sess' = SessAfter(m.d, "none")
    /\ probe' = [fn |-> "modal", menu_open |-> m.menu_open,
                 show_breakpoints |-> m.show_breakpoints]
    /\ UNCHANGED <<z80, stack, freed>>

InitModal ==
    /\ calc = TRUE
    /\ paused \in BOOLEAN
    /\ z80 \in [pc : {0}, sp : InitSPs, f : {0}, iff1 : {TRUE}, interrupts : {0}]
    /\ NewDebugger
    /\ probe = [fn |-> "modal", menu_open |-> FALSE, show_breakpoints |-> FALSE]

\* sdl_handle_debugger: the debugger is shown
ModalShow ==
    /\ ~visible
    /\ CommitModal(sdl_dbg_menu_close(
                       [ModalCur EXCEPT !.d = tilem_sdl_debugger_show(Cur)]),
                   NoAct)

\* the window of the debugger is closed
ModalHide ==
    /\ visible
    /\ CommitModal(HideModal(ModalCur), NoAct)

\* a key, a mouse button or the wheel in the window of the debugger
ModalEvent ==
    /\ visible
    /\ \E ev \in ModalEvents :
          \E m \in {HandleEventModal(ModalCur, ev)} :
             /\ Len(m.d.breakpoints) <= MaxToggled
             /\ CommitModal(m, [op |-> ev.kind, paused0 |-> paused,
                                sym |-> ev.sym, modal0 |-> ModalShown,
                                step0 |-> step_bp, call |-> m.call])

NextModal ==
    \/ ModalShow
    \/ ModalHide
    \/ ModalEvent

SpecModal == InitModal /\ [][NextModal]_vars

\* C38: the menu is never open while the input line is active or the
\* breakpoints dialog is shown; and a key, a mouse button or the wheel that
\* comes while the input line is active or the dialog is shown starts no step
\* session, neither runs nor pauses the emulator, and toggles no breakpoint
\* by address.
C38_ModesExcludeEachOther ==
    /\ probe.menu_open => ~ModalShown
    /\ act.op \in {"key", "mouse", "wheel"} /\ act.modal0 =>
          /\ act.call \notin {"RUN", "PAUSE", "STEP", "STEP_OVER", "FINISH",
                              "TOGGLE"}
          /\ paused = act.paused0
          /\ step_bp = act.step0

\* F5 has come with the breakpoints dialog shown over the paused emulator
C38_Witness ==
    /\ act.op = "key" /\ act.sym = "F5"
    /\ act.modal0 /\ probe.show_breakpoints
    /\ input.mode = "NONE"
    /\ paused

(***************************************************************************)
(* The selection of the breakpoints dialog (SpecDialog): the keys of the   *)
(* dialog and of its input line, Ctrl+B, F2 at the cursor, and             *)
(* calc_changed at any moment, the input line being open or not.           *)
(***************************************************************************)
DialogKeys ==
    {"ESCAPE", "RETURN", "UP", "DOWN", "a", "e", "d", "t", "CTRL_B", "F2"}

DialogEvents ==
    {[NoEvent EXCEPT !.kind = "key", !.sym = sym, !.addr = addr] :
        sym \in DialogKeys, addr \in ToggleAddrs}

\* the places sdl_dbg_handle_key reads or writes the array at for the key
\* ev.sym, counted from 0 as in the code: the selected entry for e, d / Delete
\* and t / Space when bp_selected is below the length, and the entry edited
\* for Return on a line that parses when input_bp_index is within the array
ArrayAccesses(m, ev) ==
    IF m.menu_open THEN {}
    ELSE IF m.d.input.mode # "NONE"
    THEN IF /\ ev.sym = "RETURN"
            /\ m.d.input.mode = "BP_EDIT"
            /\ sdl_dbg_parse_breakpoint(m.d, m.d.input.buf).ok
            /\ m.d.input.bp_index >= 0
            /\ m.d.input.bp_index < Len(m.d.breakpoints)
         THEN {m.d.input.bp_index}
         ELSE {}
    ELSE IF m.show_breakpoints
    THEN IF /\ ev.sym \in {"e", "d", "t"}
            /\ m.d.bp_selected < Len(m.d.breakpoints)
         THEN {m.d.bp_selected}
         ELSE {}
    ELSE {}

DialogEvent ==
    /\ visible
    /\ \E ev \in DialogEvents :
          \E m \in {HandleEventModal(ModalCur, ev)} :
             /\ Len(m.d.breakpoints) <= MaxBps
             /\ CommitModal(m, [op |-> "dialog", paused0 |-> paused,
                                sym |-> ev.sym, len0 |-> Len(breakpoints),
                                stale |-> /\ input.mode = "BP_EDIT"
                                          /\ input.bp_index >= Len(breakpoints),
                                access |-> ArrayAccesses(ModalCur, ev)])

\* sdl_update_after_load: a calculator has been loaded
ModalCalcChanged ==
    CommitModal([ModalCur EXCEPT !.d = tilem_sdl_debugger_calc_changed(Cur)],
                NoAct)

NextDialog ==
    \/ ModalShow
    \/ ModalHide
    \/ DialogEvent
    \/ ModalCalcChanged

SpecDialog == InitModal /\ [][NextDialog]_vars

\* C39: whatever keys of the dialog, acceptances of an added or edited
\* entry, toggles and calc_changed have come, bp_selected is not negative,
\* and every place the array is read or written at through bp_selected or
\* input_bp_index (the prefill of an edit, a deletion, an enabling or
\* disabling, the entry an edit is applied to) is below the length the array
\* has then.
C39_SelectionStaysInsideArray ==
    /\ bp_selected >= 0
    /\ act.op = "dialog" =>
           \A k \in act.access : k >= 0 /\ k < act.len0

\* Return has come in the line of an edit whose entry calc_changed has taken
\* away: the array is not touched at the place of the edit
C39_Witness ==
    /\ act.op = "dialog" /\ act.sym = "RETURN"
    /\ act.stale
    /\ act.access = {}
    /\ bp_selected >= 0


====
